---------------------------- MODULE Spec2Model ----------------------------
(***************************************************************************)
(* Seymour decomposition nodes, CMR sparse matrices and the PALP           *)
(* permutation normal form of sage, as state machines over the source.     *)
(*                                                                         *)
(* The specifications share the module: PalpSpec (the permutation normal   *)
(* form, palp_normal_form.pyx), MatrixSpec (Matrix_cmr_chr_sparse), Spec   *)
(* (DecompositionNode objects over native decomposition handles), TreeSpec *)
(* (a decomposition and the children of its nodes), KeySpec (ElementKey    *)
(* objects), CheckSpec (OneSumNode.check), LeafSpec (special leaves and    *)
(* the operations not implemented yet) and ViewSpec (cached methods and    *)
(* the matrices that nodes materialize).                                   *)
(***************************************************************************)
EXTENDS Integers, Sequences, FiniteSets, TLC

(***************************************************************************)
(* Bounds of the PALP model: shapes up to PalpMaxRows x PalpMaxCols with   *)
(* entries in 0..PalpMaxEntry.                                             *)
(***************************************************************************)
PalpMaxRows == 3
PalpMaxCols == 3
PalpMaxEntry == 1

(***************************************************************************)
(* Bounds of the matrix model: parents of up to MatMaxRows x MatMaxCols,   *)
(* dicts of up to MatMaxEntries items, up to MatMaxObjects live objects.   *)
(***************************************************************************)
MatMaxRows == 2
MatMaxCols == 2
MatMaxEntries == 2
MatMaxObjects == 2

(***************************************************************************)
(* Bounds of the node model: up to NodeMaxNodes DecompositionNode objects  *)
(* over up to NodeMaxTrees native decompositions, key tuples of up to      *)
(* NodeMaxKeys keys.                                                       *)
(***************************************************************************)
NodeMaxNodes == 3
NodeMaxTrees == 1
NodeMaxKeys == 2

(* The labels callers use as keys. *)
NodeLabels == {"a", "b"}

(* The range of a C char (signed), and SIZE_MAX, which is (size_t) -1. *)
CharMin == -128
CharMax == 127
SizeMax == -1

(* CMR_MATROID_DEC_TYPE, the tag CMRmatroiddecType reads from a handle.
   The special leaves are the tags below -1 (line 1072). *)
CMR_MATROID_DEC_TYPE_IRREGULAR == -1
CMR_MATROID_DEC_TYPE_UNKNOWN == 0
CMR_MATROID_DEC_TYPE_ONE_SUM == 1
CMR_MATROID_DEC_TYPE_TWO_SUM == 2
CMR_MATROID_DEC_TYPE_THREE_SUM == 3
CMR_MATROID_DEC_TYPE_SERIES_PARALLEL == 4
CMR_MATROID_DEC_TYPE_PIVOTS == 5
CMR_MATROID_DEC_TYPE_SUBMATRIX == 6
CMR_MATROID_DEC_TYPE_GRAPH == 7
CMR_MATROID_DEC_TYPE_COGRAPH == 8
CMR_MATROID_DEC_TYPE_PLANAR == 9
CMR_MATROID_DEC_TYPE_R10 == -2
CMR_MATROID_DEC_TYPE_FANO == -3
CMR_MATROID_DEC_TYPE_FANO_DUAL == -4
CMR_MATROID_DEC_TYPE_K5 == -5
CMR_MATROID_DEC_TYPE_K5_DUAL == -6
CMR_MATROID_DEC_TYPE_K33 == -7
CMR_MATROID_DEC_TYPE_K33_DUAL == -8
CMR_MATROID_DEC_TYPE_DETERMINANT == -9

(* Coefficients handed to the constructor: around both ends of the char
   range, zero, and a small one. *)
MatCoeffs == {CharMin - 1, CharMin, 0, 1, CharMax, CharMax + 1}

(* What allocated, not yet written memory may hold. *)
Uninitialised == {0, 1}

(***************************************************************************)
(* State.                                                                   *)
(*   palp_PM      the vertex-facet pairing matrix handed to _palp_PM_max    *)
(*   palp_out     what the call returned, once it has returned              *)
(*   palp_origin  how palp_PM was obtained, with the normal form returned   *)
(*                for the matrix it was obtained from                       *)
(*   mat_heap     the live Matrix_cmr_chr_sparse objects, by identity       *)
(*   mat_d        for each live object the dict it was initialised from     *)
(*   mat_ret      the last call on a matrix: name, receiver, argument and   *)
(*                outcome                                                   *)
(*   node_objs    the live DecompositionNode objects, by identity           *)
(*   node_made    how many DecompositionNode objects were created           *)
(*   dec_trees    the native decompositions CMR has built                   *)
(*   dec_calls    per native handle, the calls of CMRmatroiddecFree on it   *)
(*   node_ret     the last call on a node: name, receiver, argument, the    *)
(*                node before the call, whether and what it raised, and the *)
(*                handle it gave to CMRmatroiddecFree                       *)
(*   node_cache   per node, the tuple its cached _children() returned       *)
(*   node_matrix  per node, the matrix its cached matrix() returned          *)
(*   mat_views    the matrices that matrix() made, live or torn down        *)
(*   chr_calls    per native handle, the calls of CMRchrmatFree on the       *)
(*                matrix stored in it                                        *)
(*   key_objs     the objects compared as keys, ElementKey or not            *)
(*   key_ret      the last call on a key: name, operands and value           *)
(*   check_ret    the last call of check or of a method without state: its  *)
(*                name, arguments and outcome                               *)
(***************************************************************************)
VARIABLES palp_PM, palp_out, palp_origin, mat_heap, mat_d, mat_ret,
          node_objs, node_made, dec_trees, dec_calls, node_ret, node_cache,
          node_matrix, mat_views, chr_calls, key_objs, key_ret, check_ret

palp_vars == <<palp_PM, palp_out, palp_origin>>

mat_vars == <<mat_heap, mat_d, mat_ret>>

node_vars == <<node_objs, node_made, dec_trees, dec_calls, node_ret, node_cache>>

view_vars == <<node_matrix, mat_views, chr_calls>>

key_vars == <<key_objs, key_ret>>

ext_vars == <<view_vars, key_vars, check_ret>>

vars == <<palp_vars, mat_vars, node_vars, ext_vars>>

NotReturned == [done |-> FALSE, PM_max |-> <<>>, permutations |-> <<>>]

PalpIdle ==
    /\ palp_PM = <<>>
    /\ palp_out = NotReturned
    /\ palp_origin = [kind |-> "none", ref |-> <<>>]

MatIdle ==
    /\ mat_heap = <<>>
    /\ mat_d = <<>>
    /\ mat_ret = [op |-> "none", self |-> 0, arg |-> <<>>, val |-> <<>>, exc |-> ""]

(* None among objects, NULL among native handles, None among key tuples. *)
None == 0

NULL == <<0, 0>>

NoKeys == <<[key |-> "None", wrapped |-> 0 - 1]>>

NodeIdle ==
    /\ node_objs = <<>>
    /\ node_made = 0
    /\ dec_trees = <<>>
    /\ dec_calls = <<>>
    /\ node_ret = [op |-> "none", self |-> None, arg |-> <<>>,
                   before |-> <<>>, raised |-> FALSE, exc |-> "", freed |-> NULL]
    /\ node_cache = <<>>

ExtIdle ==
    /\ node_matrix = <<>>
    /\ mat_views = <<>>
    /\ chr_calls = <<>>
    /\ key_objs = <<>>
    /\ key_ret = [op |-> "none", self |-> 0, other |-> 0, val |-> 0]
    /\ check_ret = [op |-> "none"]

(***************************************************************************)
(* Python helpers.  Lists and tuples are sequences; a code index i (from   *)
(* 0) is the sequence index i + 1.  A dict with integer keys is a function *)
(* whose domain is its set of keys.                                        *)
(***************************************************************************)
Get0(s, i) == s[i + 1]

Set0(s, i, v) == [s EXCEPT ![i + 1] = v]

DictSet(d, k, v) == [x \in (DOMAIN d) \cup {k} |-> IF x = k THEN v ELSE d[x]]

DictDel(d, k) == [x \in (DOMAIN d) \ {k} |-> d[x]]

DictBelow(d, n) == [x \in {k \in DOMAIN d : k < n} |-> d[x]]

(* S_f.one(), S_v.one(): a permutation is the sequence of its images. *)
One(n) == [i \in 1..n |-> i]

(* PermutationGroupElement._transpose_left(j, k): the images at j and k swap. *)
TransposeLeft(p, j, k) ==
    [i \in DOMAIN p |-> IF i = j THEN p[k] ELSE IF i = k THEN p[j] ELSE p[i]]

(* PermutationGroupElement.__call__ on a list: position i takes lst[p(i)]. *)
PermCallList(p, lst) == [i \in DOMAIN lst |-> lst[p[i]]]

(* index_of_max: the first index (from 0) of the maximum of a non-empty
   iterable; max() keeps the first of equal maxima. *)
index_of_max(xs) ==
    CHOOSE i \in 0..(Len(xs) - 1) :
        /\ \A j \in 0..(Len(xs) - 1) : Get0(xs, j) <= Get0(xs, i)
        /\ \A j \in 0..(i - 1) : Get0(xs, j) < Get0(xs, i)

n_f_of(PM) == Len(PM)

n_v_of(PM) == Len(PM[1])

(* PM[r, c] with code indices. *)
PMat(PM, r, c) == PM[r + 1][c + 1]

(* PM[perm[0](s+1) - 1, perm[1](j+1) - 1] for a pair perm = [row, column]. *)
PMperm(PM, perm, s, j) == PM[perm[1][s + 1]][perm[2][j + 1]]

(***************************************************************************)
(* Python binds a name to the value of an expression once.  Bind(e, F) is  *)
(* F(e) with e evaluated first.                                            *)
(***************************************************************************)
Bind(e, F(_)) == CHOOSE r \in {F(x) : x \in {e}} : TRUE

(***************************************************************************)
(* _palp_PM_max, lines 83-87: the column permutation for row 0.            *)
(***************************************************************************)
(* The iterable of line 84: PM[0, i] for i in range(j, n_v). *)
FirstRowCandidates(PM, cp, j) ==
    [x \in 1..(n_v_of(PM) - j) |-> PMat(PM, 0, j + x - 1)]

(* Lines 84-86: one pass j of the loop. *)
FirstRowColumn(PM, cp, j) ==
    Bind(index_of_max(FirstRowCandidates(PM, cp, j)),
         LAMBDA m : IF m > 0 THEN TransposeLeft(cp, j + 1, m + j + 1) ELSE cp)

RECURSIVE FirstRowColumns(_, _, _)
FirstRowColumns(PM, cp, j) ==
    IF j >= n_v_of(PM) THEN cp
    ELSE Bind(FirstRowColumn(PM, cp, j),
              LAMBDA cp2 : FirstRowColumns(PM, cp2, j + 1))

(***************************************************************************)
(* Lines 102-116: arrange the columns i..n_v-1 of source row k in          *)
(* descending order while comparing with the reference row ref =           *)
(* permutations[0][1](first_row); the loop breaks once d < 0.              *)
(***************************************************************************)
(* Lines 103-111: the first maximum of the columns i..n_v-1 moves to i. *)
ArrangeColumn(PM, k, cp, i) ==
    Bind(i + index_of_max([x \in 1..(n_v_of(PM) - i) |->
                              PMat(PM, k, cp[i + x] - 1)]),
         LAMBDA m : IF m > i THEN TransposeLeft(cp, i + 1, m + 1) ELSE cp)

RECURSIVE ArrangeRow(_, _, _, _, _, _)
ArrangeRow(PM, k, ref, cp, d, i) ==
    IF i >= n_v_of(PM) THEN [cp |-> cp, d |-> d]
    ELSE Bind(ArrangeColumn(PM, k, cp, i), LAMBDA cp2 :
           IF d = 0
           THEN Bind(PMat(PM, k, cp2[i + 1] - 1) - Get0(ref, i), LAMBDA d2 :
                  IF d2 < 0 THEN [cp |-> cp2, d |-> d2]
                  ELSE ArrangeRow(PM, k, ref, cp2, d2, i + 1))
           ELSE ArrangeRow(PM, k, ref, cp2, d, i + 1))

(***************************************************************************)
(* Lines 91-130: one pass of the loop over the source rows k = 1..n_f-1.   *)
(* st = [permutations, n_s, first_row].                                     *)
(***************************************************************************)
(* Lines 93-95: the largest entry of row k moves to column 0. *)
LargestFirst(PM, k) ==
    Bind(index_of_max([j \in 1..n_v_of(PM) |->
                          PMat(PM, k, One(n_v_of(PM))[j] - 1)]),
         LAMBDA m : IF m > 0 THEN TransposeLeft(One(n_v_of(PM)), 1, m + 1)
                             ELSE One(n_v_of(PM)))

(* Lines 117-130: what becomes of row k once it is arranged as r. *)
KeepRow(PM, st, k, perms1, r) ==
    IF r.d < 0
    THEN [st EXCEPT !.permutations = DictDel(perms1, st.n_s)]
    ELSE IF r.d = 0
    THEN [st EXCEPT !.permutations =
                        DictSet(perms1, st.n_s,
                                <<TransposeLeft(One(n_f_of(PM)), 1, k + 1), r.cp>>),
                    !.n_s = st.n_s + 1]
    ELSE [permutations |-> (0 :> <<TransposeLeft(One(n_f_of(PM)), 1, k + 1), r.cp>>),
          n_s          |-> 1,
          first_row    |-> PM[k + 1]]

CompareRow(PM, st, k) ==
    Bind(LargestFirst(PM, k), LAMBDA cp1 :
    Bind(PermCallList(st.permutations[0][2], st.first_row), LAMBDA ref :
    Bind(DictSet(st.permutations, st.n_s, <<One(n_f_of(PM)), cp1>>), LAMBDA perms1 :
    Bind(PMat(PM, k, cp1[1] - 1) - Get0(ref, 0), LAMBDA d :
        IF d < 0 THEN [st EXCEPT !.permutations = perms1]
        ELSE Bind(ArrangeRow(PM, k, ref, cp1, d, 1),
                  LAMBDA r : KeepRow(PM, st, k, perms1, r))))))

RECURSIVE CompareRows(_, _, _)
CompareRows(PM, st, k) ==
    IF k >= n_f_of(PM) THEN st
    ELSE Bind(CompareRow(PM, st, k), LAMBDA st2 : CompareRows(PM, st2, k + 1))

(* Lines 78-131: the candidates for the first row of PM_max. *)
FirstRowPermutations(PM) ==
    Bind(FirstRowColumns(PM, One(n_v_of(PM)), 0), LAMBDA cp0 :
    Bind(CompareRows(PM,
                     [permutations |-> (0 :> <<One(n_f_of(PM)), cp0>>),
                      n_s          |-> 1,
                      first_row    |-> PM[1]],
                     1),
         LAMBDA st : DictBelow(st.permutations, st.n_s)))

(***************************************************************************)
(* Lines 141-147 and 274-278: column i joins the symmetry block of column  *)
(* i - 1 when their entries agree, and starts a block otherwise.           *)
(***************************************************************************)
JoinBlock(S, i) ==
    Bind(Set0(S, i, Get0(S, i - 1)), LAMBDA S1 :
        Set0(S1, Get0(S1, i) - 1, Get0(S1, Get0(S1, i) - 1) + 1))

BlockOfColumn(b, S, i) ==
    IF Get0(b, i - 1) = Get0(b, i) THEN JoinBlock(S, i) ELSE Set0(S, i, i + 1)

(* Lines 141-147: the symmetry blocks S of the first row b. *)
RECURSIVE SymmetryBlocks(_, _, _)
SymmetryBlocks(b, S, i) ==
    IF i >= Len(b) THEN S
    ELSE Bind(BlockOfColumn(b, S, i), LAMBDA S2 : SymmetryBlocks(b, S2, i + 1))

(***************************************************************************)
(* Lines 154-279: the rows 1..n_f-2 of PM_max in turn.  The loop state of  *)
(* one global permutation k is the record                                   *)
(*   [pb (permutations_bar), n_p, ccf, cf, l_r, n_s].                       *)
(***************************************************************************)
(* Lines 171-176 and 225-230: columns c and j of row s swap when the entry
   at c is the smaller one. *)
SwapIfSmaller(PM, perm, s, c, j) ==
    IF PMperm(PM, perm, s, c) < PMperm(PM, perm, s, j)
    THEN <<perm[1], TransposeLeft(perm[2], c + 1, j + 1)>>
    ELSE perm

(* Lines 170-176: the maximum of row s within the first symmetry block. *)
RECURSIVE FirstBlockMax(_, _, _, _, _)
FirstBlockMax(PM, perm, s, S0, j) ==
    IF j >= S0 THEN perm
    ELSE Bind(SwapIfSmaller(PM, perm, s, 0, j),
              LAMBDA perm2 : FirstBlockMax(PM, perm2, s, S0, j + 1))

(* Lines 181, 195, 203: source row s moves to row l. *)
RowToPlace(perm, l, s) ==
    IF s # l THEN <<TransposeLeft(perm[1], l + 1, s + 1), perm[2]>> ELSE perm

(* Lines 177-209: what becomes of source row s with its maximum cur. *)
FirstBlockDecide(PM, l, k, pk, ss, s, cur) ==
    LET n_p  == ss.n_p
        val  == PMperm(PM, cur, s, 0)
        kept == DictSet(DictSet(ss.pb, n_p, RowToPlace(cur, l, s)), n_p + 1, pk)
    IN  IF ss.ccf = 0
        THEN [ss EXCEPT !.l_r = Set0(@, 0, val), !.pb = kept,
                        !.n_p = n_p + 1, !.ccf = 1]
        ELSE IF val - Get0(ss.l_r, 0) < 0
        THEN [ss EXCEPT !.pb = DictSet(ss.pb, n_p, cur)]
        ELSE IF val - Get0(ss.l_r, 0) = 0
        THEN [ss EXCEPT !.pb = kept, !.n_p = n_p + 1]
        ELSE [ss EXCEPT !.l_r = Set0(@, 0, val), !.cf = 0,
                        !.pb = (0 :> RowToPlace(cur, l, s)) @@ (1 :> pk),
                        !.n_p = 1, !.n_s = k + 1]

(* Lines 170-209: source row s as a candidate for row l. *)
FirstBlockRow(PM, l, k, pk, S0, ss, s) ==
    Bind(FirstBlockMax(PM, ss.pb[ss.n_p], s, S0, 1),
         LAMBDA cur : FirstBlockDecide(PM, l, k, pk, ss, s, cur))

RECURSIVE FirstBlockRows(_, _, _, _, _, _, _)
FirstBlockRows(PM, l, k, pk, S0, ss, s) ==
    IF s >= n_f_of(PM) THEN ss
    ELSE Bind(FirstBlockRow(PM, l, k, pk, S0, ss, s),
              LAMBDA ss2 : FirstBlockRows(PM, l, k, pk, S0, ss2, s + 1))

(* Lines 224-230: the maximum of row l within the block c..h-1. *)
RECURSIVE BlockMax(_, _, _, _, _, _)
BlockMax(PM, perm, l, c, h, j) ==
    IF j >= h THEN perm
    ELSE Bind(SwapIfSmaller(PM, perm, l, c, j),
              LAMBDA perm2 : BlockMax(PM, perm2, l, c, h, j + 1))

(* Lines 231-250: what becomes of local permutation s1 with its maximum cur. *)
BlockDecide(PM, l, k, c, ws, s1, cur) ==
    LET pb1 == DictSet(ws.pb, s1, cur)
        val == PMperm(PM, cur, l, c)
    IN  IF ws.ccf = 0
        THEN [ws EXCEPT !.pb = pb1, !.l_r = Set0(@, c, val), !.ccf = 1]
        ELSE IF val - Get0(ws.l_r, c) < 0
        THEN [ws EXCEPT !.pb = IF s1 < ws.n_p - 1
                                THEN DictSet(pb1, s1, pb1[ws.n_p - 1])
                                ELSE pb1,
                        !.n_p = ws.n_p - 1]
        ELSE IF val - Get0(ws.l_r, c) > 0
        THEN [ws EXCEPT !.pb = pb1, !.l_r = Set0(@, c, val), !.cf = 0,
                        !.n_p = s1 + 1, !.n_s = k + 1]
        ELSE [ws EXCEPT !.pb = pb1]

(* Lines 221-250: the while loop over the local permutations s = n_p-1..0. *)
RECURSIVE BlockCandidates(_, _, _, _, _, _, _)
BlockCandidates(PM, l, k, c, h, ws, s) ==
    IF s <= 0 THEN ws
    ELSE Bind(BlockMax(PM, ws.pb[s - 1], l, c, h, c + 1), LAMBDA cur :
         Bind(BlockDecide(PM, l, k, c, ws, s - 1, cur), LAMBDA ws2 :
              BlockCandidates(PM, l, k, c, h, ws2, s - 1)))

(* Lines 213-218: the end h of the symmetry block of column c. *)
BlockEnd(S, c) ==
    IF Get0(S, c) < c + 1 THEN Get0(S, Get0(S, c) - 1) ELSE Get0(S, c)

(* Lines 212-250: the columns c = 1..n_v-1. *)
RECURSIVE Blocks(_, _, _, _, _, _)
Blocks(PM, l, k, S, cs, c) ==
    IF c >= n_v_of(PM) THEN cs
    ELSE Bind(BlockCandidates(PM, l, k, c, BlockEnd(S, c),
                              [cs EXCEPT !.ccf = cs.cf], cs.n_p),
              LAMBDA cs2 : Blocks(PM, l, k, S, cs2, c + 1))

(* Lines 252-258: the local permutations replace global permutation k. *)
UpdatePermutations(permutations, k, n_s, n_p, pb) ==
    LET perms1 == IF (n_s - 1) > k
                  THEN DictSet(permutations, k, permutations[n_s - 1])
                  ELSE permutations
        base   == n_s - 1
        new    == base..(base + n_p - 1)
    IN  [permutations |-> [x \in (DOMAIN perms1) \cup new |->
                              IF x \in new THEN pb[x - base] ELSE perms1[x]],
         n_s          |-> base + n_p]

(* Lines 162-258: global permutation k; ks = [permutations, n_s, cf, l_r]. *)
FixRowCandidate(PM, l, S, ks, k) ==
    Bind(FirstBlockRows(PM, l, k, ks.permutations[k], Get0(S, 0),
                        [pb  |-> (0 :> ks.permutations[k]), n_p |-> 0,
                         ccf |-> ks.cf, cf |-> ks.cf,
                         l_r |-> ks.l_r, n_s |-> ks.n_s],
                        l),
         LAMBDA ss :
    Bind(Blocks(PM, l, k, S, ss, 1), LAMBDA cs :
    Bind(UpdatePermutations(ks.permutations, k, cs.n_s, cs.n_p, cs.pb),
         LAMBDA up : [permutations |-> up.permutations,
                      n_s |-> up.n_s, cf |-> up.n_s, l_r |-> cs.l_r])))

(* Lines 161-258: the global permutations k = n_s_bar-1..0. *)
RECURSIVE FixRowCandidates(_, _, _, _, _)
FixRowCandidates(PM, l, S, ks, k) ==
    IF k < 0 THEN ks
    ELSE Bind(FixRowCandidate(PM, l, S, ks, k),
              LAMBDA ks2 : FixRowCandidates(PM, l, S, ks2, k - 1))

(* Lines 273-279: the inner while of the block refinement. *)
RECURSIVE RefineInner(_, _, _, _)
RefineInner(M, S, c, s) ==
    IF c >= s - 1 THEN [S |-> S, c |-> c]
    ELSE Bind(BlockOfColumn(M, S, c), LAMBDA S2 : RefineInner(M, S2, c + 1, s))

(* Lines 269-279: the symmetry blocks refined by the row M just fixed. *)
RECURSIVE RefineBlocks(_, _, _)
RefineBlocks(M, S, c) ==
    IF c >= Len(M) THEN S
    ELSE Bind(RefineInner(M, Set0(S, c, c + 1), c + 1, Get0(S, c) + 1),
              LAMBDA r : RefineBlocks(M, r.S, r.c))

(* Lines 155-279: one pass l of the loop; st = [permutations, S]. *)
FixRow(PM, st, l) ==
    Bind(FixRowCandidates(PM, l, st.S,
                          [permutations |-> st.permutations,
                           n_s |-> Cardinality(DOMAIN st.permutations),
                           cf  |-> 0,
                           l_r |-> [j \in 1..n_v_of(PM) |-> 0]],
                          Cardinality(DOMAIN st.permutations) - 1),
         LAMBDA ks :
    Bind(DictBelow(ks.permutations, ks.n_s), LAMBDA perms :
        [permutations |-> perms,
         S |-> IF st.S # One(n_v_of(PM))
               THEN RefineBlocks([j \in 1..n_v_of(PM) |->
                                     PMperm(PM, perms[0], l, j - 1)],
                                 st.S, 0)
               ELSE st.S]))

RECURSIVE FixRows(_, _, _)
FixRows(PM, st, l) ==
    IF l >= n_f_of(PM) - 1 THEN st
    ELSE Bind(FixRow(PM, st, l), LAMBDA st2 : FixRows(PM, st2, l + 1))

(* Matrix.with_permuted_rows_and_columns: entry (i, j) is PM[row(i), col(j)]. *)
with_permuted_rows_and_columns(PM, rp, cp) ==
    [i \in 1..Len(rp) |-> [j \in 1..Len(cp) |-> PM[rp[i]][cp[j]]]]

(***************************************************************************)
(* _palp_PM_max(check=True): the pair (PM_max, permutations).              *)
(***************************************************************************)
palp_PM_max(PM) ==
    Bind(FirstRowPermutations(PM), LAMBDA first :
    Bind(FixRows(PM,
                 [permutations |-> first,
                  S |-> SymmetryBlocks([j \in 1..n_v_of(PM) |->
                                           PMperm(PM, first[0], 0, j - 1)],
                                       One(n_v_of(PM)), 1)],
                 1),
         LAMBDA st :
        [PM_max       |-> with_permuted_rows_and_columns(PM,
                              st.permutations[0][1], st.permutations[0][2]),
         permutations |-> st.permutations]))

(***************************************************************************)
(* Reference definitions for the permutation normal form: the orbit of a   *)
(* matrix under row and column permutations, the lexicographic order       *)
(* (rows most significant first, read left to right) and the automorphisms *)
(* of rows and columns.                                                     *)
(***************************************************************************)
AllPermutations(n) ==
    {p \in [1..n -> 1..n] : \A i, j \in 1..n : p[i] = p[j] => i = j}

PermutationPairs(PM) == AllPermutations(n_f_of(PM)) \X AllPermutations(n_v_of(PM))

Orbit(PM) ==
    {with_permuted_rows_and_columns(PM, g[1], g[2]) : g \in PermutationPairs(PM)}

Flat(PM) == [x \in 1..(n_f_of(PM) * n_v_of(PM)) |->
                PM[((x - 1) \div n_v_of(PM)) + 1][((x - 1) % n_v_of(PM)) + 1]]

LexLeq(A, B) ==
    \/ A = B
    \/ \E x \in DOMAIN Flat(A) :
          /\ Flat(A)[x] < Flat(B)[x]
          /\ \A y \in 1..(x - 1) : Flat(A)[y] = Flat(B)[y]

LexMax(PM) == CHOOSE M \in Orbit(PM) : \A N \in Orbit(PM) : LexLeq(N, M)

automorphisms_of_rows_and_columns(M) ==
    {g \in PermutationPairs(M) : with_permuted_rows_and_columns(M, g[1], g[2]) = M}

PalpMatrices ==
    UNION {[1..r -> [1..c -> 0..PalpMaxEntry]] :
              r \in 1..PalpMaxRows, c \in 1..PalpMaxCols}

(***************************************************************************)
(* _palp_PM_max and its callers.                                           *)
(***************************************************************************)
PalpInit ==
    /\ palp_PM \in PalpMatrices
    /\ palp_out = NotReturned
    /\ palp_origin = [kind |-> "given", ref |-> <<>>]
    /\ MatIdle
    /\ NodeIdle
    /\ ExtIdle

(* PM._palp_PM_max(check=True) *)
PalpCall ==
    /\ palp_PM # <<>>
    /\ ~palp_out.done
    /\ \E r \in {palp_PM_max(palp_PM)} :
          palp_out' = [done         |-> TRUE,
                       PM_max       |-> r.PM_max,
                       permutations |-> r.permutations]
    /\ UNCHANGED <<palp_PM, palp_origin, mat_vars, node_vars, ext_vars>>

(* The caller permutes rows and columns of the matrix and asks again. *)
PalpPermuteInput ==
    /\ palp_out.done
    /\ palp_origin.kind = "given"
    /\ \E g \in PermutationPairs(palp_PM) :
          palp_PM' = with_permuted_rows_and_columns(palp_PM, g[1], g[2])
    /\ palp_origin' = [kind |-> "permuted", ref |-> palp_out.PM_max]
    /\ palp_out' = NotReturned
    /\ UNCHANGED <<mat_vars, node_vars, ext_vars>>

(* The caller asks for the normal form of the normal form. *)
PalpResubmit ==
    /\ palp_out.done
    /\ palp_origin.kind = "given"
    /\ palp_PM' = palp_out.PM_max
    /\ palp_origin' = [kind |-> "normal_form", ref |-> palp_out.PM_max]
    /\ palp_out' = NotReturned
    /\ UNCHANGED <<mat_vars, node_vars, ext_vars>>

PalpNext == PalpCall \/ PalpPermuteInput \/ PalpResubmit

PalpSpec == PalpInit /\ [][PalpNext]_vars

(***************************************************************************)
(* Claims about _palp_PM_max.                                              *)
(***************************************************************************)
\* C1: the matrix returned by _palp_PM_max is the lexicographic maximum over
\* all row and column permutations of its input.
C1_ReturnsLexMax ==
    palp_out.done => palp_out.PM_max = LexMax(palp_PM)

\* C2: the normal form computed for a row/column permutation P(M) of M
\* equals the normal form computed for M.
C2_PermutationInvariant ==
    (palp_out.done /\ palp_origin.kind = "permuted")
        => palp_out.PM_max = palp_origin.ref

\* C3: idempotence: _palp_PM_max of the matrix it returned for M returns
\* that same matrix.
C3_Idempotent ==
    (palp_out.done /\ palp_origin.kind = "normal_form")
        => palp_out.PM_max = palp_origin.ref

\* C4: with check=True the number of returned (row, column) permutation
\* pairs equals the number of row/column automorphisms of the normal form.
C4_AutomorphismCount ==
    palp_out.done
        => Cardinality(DOMAIN palp_out.permutations)
             = Cardinality(automorphisms_of_rows_and_columns(palp_out.PM_max))

(***************************************************************************)
(* Matrix_cmr_chr_sparse (matrix_cmr_sparse.pyx).                          *)
(*                                                                         *)
(* A Python dict d with keys (row, col) is the sequence of its items       *)
(* <<row, col, coeff>> in insertion order, the keys distinct.  The native  *)
(* matrix _mat is a record of numRows, numColumns, numNonzeros and the     *)
(* arrays rowSlice, entryColumns, entryValues (code index i is sequence    *)
(* index i + 1).                                                           *)
(***************************************************************************)
RECURSIVE ItemsUpTo(_, _)
ItemsUpTo(keys, n) ==
    IF n = 0 THEN {<<>>}
    ELSE LET shorter == ItemsUpTo(keys, n - 1)
         IN  shorter \cup
             {Append(d, <<k[1], k[2], v>>) :
                 d \in {s \in shorter : Len(s) = n - 1},
                 k \in keys, v \in MatCoeffs} 

DistinctKeys(d) ==
    \A a, b \in DOMAIN d : a # b => <<d[a][1], d[a][2]>> # <<d[b][1], d[b][2]>>

(* The dicts ma.dict(coerce) can hand over for an nrows x ncols parent. *)
MatDicts(nrows, ncols) ==
    {d \in ItemsUpTo((0..(nrows - 1)) \X (0..(ncols - 1)), MatMaxEntries) :
        DistinctKeys(d)}

(* The mapping a dict stands for. *)
Mapping(d) ==
    [k \in {<<d[a][1], d[a][2]>> : a \in DOMAIN d} |->
        LET a == CHOOSE a \in DOMAIN d : <<d[a][1], d[a][2]>> = k IN d[a][3]]

(* d[(row, col)] = v: a present key keeps its place. *)
DictPut(d, row, col, v) ==
    IF \E a \in DOMAIN d : d[a][1] = row /\ d[a][2] = col
    THEN [a \in DOMAIN d |->
             IF d[a][1] = row /\ d[a][2] = col THEN <<row, col, v>> ELSE d[a]]
    ELSE Append(d, <<row, col, v>>)

(* A conversion that keeps the low eight bits instead of raising. *)
chr_wrapping(v) ==
    [raised |-> FALSE, val |-> ((v - CharMin) % (CharMax - CharMin + 1)) + CharMin]

(* Line 109: the conversion of a Python integer to a C char. *)
chr_from_py(v) ==
    IF v < CharMin \/ v > CharMax
    THEN [raised |-> TRUE, val |-> 0]
    ELSE [raised |-> FALSE, val |-> v]

(* A test that lets explicit zeros through. *)
always_true(coeff) == TRUE

(* Lines 101 and 106: if coeff. *)
truthy(coeff) == coeff # 0

(* Line 97: CMRchrmatCreate; the arrays are allocated and not filled. *)
CMRchrmatCreate(nrows, ncols, nnz, g) ==
    [numRows      |-> nrows,
     numColumns   |-> ncols,
     numNonzeros  |-> nnz,
     rowSlice     |-> [i \in 1..(nrows + 1) |-> g],
     entryColumns |-> [i \in 1..nnz |-> g],
     entryValues  |-> [i \in 1..nnz |-> g]]

(* Lines 98-99. *)
ClearSlices(mat) ==
    [mat EXCEPT !.rowSlice =
        [i \in DOMAIN mat.rowSlice |-> IF i <= mat.numRows THEN 0 ELSE @[i]]]

(* Lines 100-102: the number of nonzeros of each row, at rowSlice[row + 1]. *)
RECURSIVE CountNonzeros(_, _, _)
CountNonzeros(mat, d, a) ==
    IF a > Len(d) THEN mat
    ELSE Bind(IF truthy(d[a][3])
              THEN [mat EXCEPT !.rowSlice =
                       Set0(@, d[a][1] + 1, Get0(@, d[a][1] + 1) + 1)]
              ELSE mat,
              LAMBDA m2 : CountNonzeros(m2, d, a + 1))

(* Lines 103-104. *)
RECURSIVE PrefixSums(_, _)
PrefixSums(mat, row) ==
    IF row >= mat.numRows THEN mat
    ELSE Bind([mat EXCEPT !.rowSlice =
                  Set0(@, row + 1, Get0(@, row + 1) + Get0(@, row))],
              LAMBDA m2 : PrefixSums(m2, row + 1))

(* Lines 107-110: one nonzero item goes to the cursor of its row. *)
StoreEntry(mat, row, col, c) ==
    LET index == Get0(mat.rowSlice, row)
    IN  [mat EXCEPT !.entryColumns = Set0(@, index, col),
                    !.entryValues  = Set0(@, index, c),
                    !.rowSlice     = Set0(@, row, index + 1)]

(* Lines 105-110; st = [raised, mat].  The conversion of line 109 raises
   after line 108 has stored the column. *)
RECURSIVE FillEntries(_, _, _)
FillEntries(st, d, a) ==
    IF a > Len(d) \/ st.raised THEN st
    ELSE IF ~truthy(d[a][3]) THEN FillEntries(st, d, a + 1)
    ELSE Bind(chr_from_py(d[a][3]), LAMBDA c :
         Bind(IF c.raised
              THEN [raised |-> TRUE,
                    mat    |-> [st.mat EXCEPT !.entryColumns =
                                   Set0(@, Get0(st.mat.rowSlice, d[a][1]), d[a][2])]]
              ELSE [raised |-> FALSE,
                    mat    |-> StoreEntry(st.mat, d[a][1], d[a][2], c.val)],
              LAMBDA st2 : FillEntries(st2, d, a + 1)))

(* Lines 111-113. *)
ShiftSlices(mat) ==
    [mat EXCEPT !.rowSlice =
        [i \in DOMAIN mat.rowSlice |-> IF i = 1 THEN 0 ELSE mat.rowSlice[i - 1]]]

(* The entries left in insertion order. *)
unsorted(mat) == mat

(* Line 114: CMRchrmatSortNonzeros sorts the entries of each row by column. *)
RowOfIndex(mat, index) ==
    CHOOSE row \in 0..(mat.numRows - 1) :
        Get0(mat.rowSlice, row) <= index /\ index < Get0(mat.rowSlice, row + 1)

SortedAt(mat, index) ==
    LET row   == RowOfIndex(mat, index)
        first == Get0(mat.rowSlice, row)
        slice == first..(Get0(mat.rowSlice, row + 1) - 1)
    IN  CHOOSE e \in slice :
            Cardinality({f \in slice :
                \/ Get0(mat.entryColumns, f) < Get0(mat.entryColumns, e)
                \/ Get0(mat.entryColumns, f) = Get0(mat.entryColumns, e) /\ f < e})
              = index - first

CMRchrmatSortNonzeros(mat) ==
    LET stored == Get0(mat.rowSlice, mat.numRows)
    IN  [mat EXCEPT
            !.entryColumns = [i \in DOMAIN @ |->
                IF i - 1 < stored
                THEN Get0(mat.entryColumns, SortedAt(mat, i - 1)) ELSE @[i]],
            !.entryValues = [i \in DOMAIN @ |->
                IF i - 1 < stored
                THEN Get0(mat.entryValues, SortedAt(mat, i - 1)) ELSE @[i]]]

(* A constructor that forgets line 115. *)
left_mutable(M) == M

(* Line 115: Matrix.set_immutable. *)
set_immutable(M) == [M EXCEPT !._is_immutable = TRUE]

(* Lines 94-115: _init_from_dict on a new object; g is what the allocated
   arrays hold.  The result is [raised, M]. *)
_init_from_dict(d, nrows, ncols, g) ==
    Bind(FillEntries([raised |-> FALSE,
                      mat    |-> PrefixSums(
                                   CountNonzeros(
                                     ClearSlices(CMRchrmatCreate(nrows, ncols, Len(d), g)),
                                     d, 1),
                                   0)],
                     d, 1),
         LAMBDA st :
            IF st.raised
            THEN [raised |-> TRUE,
                  M |-> [_mat |-> st.mat, _nrows |-> nrows, _ncols |-> ncols,
                         _is_immutable |-> FALSE]]
            ELSE [raised |-> FALSE,
                  M |-> set_immutable(
                          [_mat |-> CMRchrmatSortNonzeros(ShiftSlices(st.mat)),
                           _nrows |-> nrows, _ncols |-> ncols,
                           _is_immutable |-> FALSE])])

(* Line 119: CMRchrmatFindEntry, a binary search in the slice of the row;
   SizeMax stands for SIZE_MAX. *)
RECURSIVE FindEntryBetween(_, _, _, _)
FindEntryBetween(mat, column, lower, upper) ==
    IF lower >= upper THEN SizeMax
    ELSE LET entry == (lower + upper) \div 2
             c     == Get0(mat.entryColumns, entry)
         IN  IF c < column THEN FindEntryBetween(mat, column, entry + 1, upper)
             ELSE IF c > column THEN FindEntryBetween(mat, column, lower, entry)
             ELSE entry

CMRchrmatFindEntry(mat, row, column) ==
    FindEntryBetween(mat, column, Get0(mat.rowSlice, row), Get0(mat.rowSlice, row + 1))

(* Lines 117-122. *)
get_unsafe(M, i, j) ==
    LET index == CMRchrmatFindEntry(M._mat, i, j)
    IN  IF index = SizeMax THEN 0 ELSE Get0(M._mat.entryValues, index)

(* Lines 124-133. *)
RECURSIVE DictFrom(_, _, _, _)
DictFrom(mat, d, row, index) ==
    IF row >= mat.numRows THEN d
    ELSE IF index >= Get0(mat.rowSlice, row + 1)
    THEN IF row + 1 >= mat.numRows THEN d
         ELSE DictFrom(mat, d, row + 1, Get0(mat.rowSlice, row + 1))
    ELSE Bind(DictPut(d, row, Get0(mat.entryColumns, index),
                      Get0(mat.entryValues, index)),
              LAMBDA d2 : DictFrom(mat, d2, row, index + 1))

_dict(M) ==
    IF M._mat.numRows = 0 THEN <<>>
    ELSE DictFrom(M._mat, <<>>, 0, Get0(M._mat.rowSlice, 0))

(***************************************************************************)
(* Matrix_cmr_chr_sparse objects and the calls made on them.               *)
(*   mat_heap  the live objects, by identity                               *)
(*   mat_d     for each live object the dict handed to _init_from_dict     *)
(*   mat_ret   the last call: its name, receiver, argument and outcome     *)
(***************************************************************************)
MatInit ==
    /\ MatIdle
    /\ PalpIdle
    /\ NodeIdle
    /\ ExtIdle

MatReturn(op, self, arg, val, exc) ==
    [op |-> op, self |-> self, arg |-> arg, val |-> val, exc |-> exc]

(* An exception that nobody catches ends the caller. *)
MatRunning == mat_ret.exc = ""

(* A new object takes the next identity. *)
NewId == Cardinality(DOMAIN mat_heap) + 1

(* Lines 78-92: Matrix_cmr_chr_sparse(parent, entries).  When the
   conversion raises, the half-built object is released again. *)
MatConstruct ==
    /\ MatRunning
    /\ DOMAIN mat_heap = {}
    /\ \E nrows \in 1..MatMaxRows, ncols \in 1..MatMaxCols :
       \E d \in MatDicts(nrows, ncols), g \in Uninitialised :
       \E r \in {_init_from_dict(d, nrows, ncols, g)} :
          IF r.raised
          THEN /\ mat_ret' = MatReturn("__init__", 0,
                                       [d |-> d, nrows |-> nrows, ncols |-> ncols],
                                       0, "OverflowError")
               /\ UNCHANGED <<mat_heap, mat_d>>
          ELSE /\ mat_heap' = (NewId :> r.M) @@ mat_heap
               /\ mat_d' = (NewId :> d) @@ mat_d
               /\ mat_ret' = MatReturn("__init__", NewId,
                                       [d |-> d, nrows |-> nrows, ncols |-> ncols],
                                       NewId, "")
    /\ UNCHANGED <<palp_vars, node_vars, ext_vars>>

(* Lines 117-122: M[i, j] for a position within the dimensions. *)
MatGet ==
    /\ MatRunning
    /\ \E m \in DOMAIN mat_heap :
       \E i \in 0..(mat_heap[m]._nrows - 1), j \in 0..(mat_heap[m]._ncols - 1) :
          mat_ret' = MatReturn("get_unsafe", m, <<i, j>>, get_unsafe(mat_heap[m], i, j), "")
    /\ UNCHANGED <<mat_heap, mat_d, palp_vars, node_vars, ext_vars>>

(* Lines 124-133. *)
MatDict ==
    /\ MatRunning
    /\ \E m \in DOMAIN mat_heap :
          mat_ret' = MatReturn("_dict", m, <<>>, _dict(mat_heap[m]), "")
    /\ UNCHANGED <<mat_heap, mat_d, palp_vars, node_vars, ext_vars>>

(* Lines 135-136: copy(M). *)
MatCopy ==
    /\ MatRunning
    /\ \E m \in DOMAIN mat_heap :
          mat_ret' = MatReturn("__copy__", m, <<>>, m, "")
    /\ UNCHANGED <<mat_heap, mat_d, palp_vars, node_vars, ext_vars>>

(* Lines 138-139: deepcopy(M). *)
MatDeepCopy ==
    /\ MatRunning
    /\ \E m \in DOMAIN mat_heap :
          mat_ret' = MatReturn("__deepcopy__", m, <<>>, m, "")
    /\ UNCHANGED <<mat_heap, mat_d, palp_vars, node_vars, ext_vars>>

(* Lines 147-154: loads(dumps(M)): _pickle of M, then _unpickle on a new
   object of the same parent. *)
MatPickleUnpickle ==
    /\ MatRunning
    /\ Cardinality(DOMAIN mat_heap) < MatMaxObjects
    /\ \E m \in DOMAIN mat_heap, version \in {0, 1}, g \in Uninitialised :
       \E data \in {_dict(mat_heap[m])} :
          IF version # 0
          THEN /\ mat_ret' = MatReturn("_unpickle", m, data, 0, "RuntimeError")
               /\ UNCHANGED <<mat_heap, mat_d>>
          ELSE \E r \in {_init_from_dict(data, mat_heap[m]._nrows,
                                         mat_heap[m]._ncols, g)} :
               IF r.raised
               THEN /\ mat_ret' = MatReturn("_unpickle", m, data, 0, "OverflowError")
                    /\ UNCHANGED <<mat_heap, mat_d>>
               ELSE /\ mat_heap' = (NewId :> r.M) @@ mat_heap
                    /\ mat_d' = (NewId :> data) @@ mat_d
                    /\ mat_ret' = MatReturn("_unpickle", m, data, NewId, "")
    /\ UNCHANGED <<palp_vars, node_vars, ext_vars>>

MatNext ==
    \/ MatConstruct
    \/ MatGet
    \/ MatDict
    \/ MatCopy
    \/ MatDeepCopy
    \/ MatPickleUnpickle

MatrixSpec == MatInit /\ [][MatNext]_vars

(***************************************************************************)
(* Claims about Matrix_cmr_chr_sparse.                                     *)
(***************************************************************************)
InCharRange(v) == CharMin <= v /\ v <= CharMax

Nonzeros(f) == [k \in {k \in DOMAIN f : f[k] # 0} |-> f[k]]

\* C5: constructing a Matrix_cmr_chr_sparse raises OverflowError exactly
\* when some entry is outside -128..127; when it succeeds every entry given
\* is stored as given, none truncated.
C5_OverflowOutsideCharRange ==
    mat_ret.op = "__init__" =>
        LET d == mat_ret.arg.d
        IN  /\ (mat_ret.exc = "OverflowError")
                  <=> (\E a \in DOMAIN d : ~InCharRange(d[a][3]))
            /\ mat_ret.exc = "" =>
                  \A a \in DOMAIN d :
                      get_unsafe(mat_heap[mat_ret.self], d[a][1], d[a][2]) = d[a][3]

C5_Witness ==
    /\ mat_ret.op = "__init__"
    /\ mat_ret.exc = "OverflowError"
    /\ \E a, b \in DOMAIN mat_ret.arg.d :
          /\ mat_ret.arg.d[a][3] = CharMax
          /\ mat_ret.arg.d[b][3] = CharMax + 1

\* C6: for a matrix built by _init_from_dict from d, get_unsafe(i, j)
\* returns d[(i, j)] when that entry is present and nonzero, and 0 otherwise.
C6_GetReturnsEntry ==
    mat_ret.op = "get_unsafe" =>
        LET f == Mapping(mat_d[mat_ret.self])
        IN  mat_ret.val = IF mat_ret.arg \in DOMAIN f /\ f[mat_ret.arg] # 0
                          THEN f[mat_ret.arg]
                          ELSE 0

C6_Witness ==
    /\ mat_ret.op = "get_unsafe"
    /\ mat_ret.val = CharMin
    /\ mat_ret.arg = <<1, 1>>
    /\ mat_d[mat_ret.self] = <<<<1, 1, CharMin>>, <<1, 0, CharMax>>>>

\* C7: _dict() of the matrix built from d is d restricted to its nonzero
\* values, and the matrix rebuilt from that dictionary by _unpickle has the
\* same _dict().
C7_DictRoundTrip ==
    /\ (mat_ret.op = "_dict")
          => Mapping(mat_ret.val) = Nonzeros(Mapping(mat_d[mat_ret.self]))
    /\ (mat_ret.op = "_unpickle" /\ mat_ret.exc = "")
          => /\ Mapping(_dict(mat_heap[mat_ret.val]))
                  = Mapping(_dict(mat_heap[mat_ret.self]))
             /\ Mapping(_dict(mat_heap[mat_ret.val]))
                  = Nonzeros(Mapping(mat_d[mat_ret.self]))

C7_Witness ==
    /\ mat_ret.op = "_unpickle"
    /\ mat_ret.exc = ""
    /\ mat_ret.val # mat_ret.self
    /\ mat_d[mat_ret.self] = <<<<0, 1, 0>>, <<0, 0, CharMax>>>>
    /\ mat_d[mat_ret.val] = <<<<0, 0, CharMax>>>>

RowElement(i) == [valid |-> TRUE, is_row |-> TRUE, index |-> i]

ColumnElement(j) == [valid |-> TRUE, is_row |-> FALSE, index |-> j]

(* The decompositions CMR hands over: a graphic leaf, and a 1-sum of two
   graphic leaves. *)
DecShapes ==
    {[type |-> CMR_MATROID_DEC_TYPE_GRAPH, nrows |-> 1, ncols |-> 2, children |-> <<>>],
     [type |-> CMR_MATROID_DEC_TYPE_ONE_SUM, nrows |-> 2, ncols |-> 2,
      children |-> <<[type |-> CMR_MATROID_DEC_TYPE_GRAPH, nrows |-> 1, ncols |-> 1,
                      rows_parent |-> <<RowElement(0)>>,
                      columns_parent |-> <<ColumnElement(0)>>],
                     [type |-> CMR_MATROID_DEC_TYPE_GRAPH, nrows |-> 1, ncols |-> 1,
                      rows_parent |-> <<RowElement(1)>>,
                      columns_parent |-> <<ColumnElement(1)>>]>>]}

PyKey(label) == [key |-> label, wrapped |-> 0]

(* Lines 1024-1036: _key is frozenset([(sign1, key1), (sign2, key2)]) with
   composition, and frozenset((keys,)) without. *)
ElementKey(keys, composition) ==
    IF composition
    THEN [pairs |-> {<<keys[1], keys[2]>>, <<keys[3], keys[4]>>}, wrapped |-> 1]
    ELSE [keys EXCEPT !.wrapped = @ + 1]

(* The tuples of up to n keys from S, no key twice. *)
RECURSIVE TuplesUpTo(_, _)
TuplesUpTo(S, n) ==
    IF n = 0 THEN {<<>>}
    ELSE TuplesUpTo(S, n - 1) \cup
         {t \in [1..n -> S] : \A i, j \in 1..n : i # j => t[i] # t[j]}

(* What a caller may pass as row_keys or column_keys. *)
NodeKeyArgs ==
    {NoKeys} \cup TuplesUpTo({PyKey(l) : l \in NodeLabels}, NodeMaxKeys)

(* CMRmatroiddecNumRows, CMRmatroiddecNumColumns, CMRmatroiddecNumChildren,
   CMRmatroiddecRowsParent, CMRmatroiddecColumnsParent of a handle among the
   decompositions trees that CMR has built. *)
DecOf(trees, dec) ==
    IF dec[2] = 0 THEN trees[dec[1]] ELSE trees[dec[1]].children[dec[2]]

CMRmatroiddecNumRows(trees, dec) == DecOf(trees, dec).nrows

CMRmatroiddecNumColumns(trees, dec) == DecOf(trees, dec).ncols

CMRmatroiddecNumChildren(trees, dec) ==
    IF dec[2] = 0 THEN Len(trees[dec[1]].children) ELSE 0

(* Line 285: CMRmatroiddecChild. *)
CMRmatroiddecChild(dec, index) == <<dec[1], index + 1>>

(* Every node frees what it holds. *)
always_owns(self, root) == TRUE

(* Line 39: the node owns its handle. *)
owns_dec(self, root) == root = None \/ root = self

(* Lines 38-44: _set_dec; freed is the handle given to CMRmatroiddecFree,
   or NULL when none is. *)
_set_dec(node, self, dec, root) ==
    [node  |-> [node EXCEPT !._dec = dec, !._root = root],
     freed |-> IF owns_dec(self, node._root) /\ node._dec # NULL
               THEN node._dec ELSE NULL]

(* Stored keys that forbid nothing. *)
never_conflict(stored, keys) == FALSE

(* Lines 51 and 64: the stored keys forbid the new ones. *)
keys_conflict(stored, keys) == stored # NoKeys /\ stored # keys

(* _set_row_keys without the test of lines 54-56. *)
_set_row_keys_unchecked(trees, node, row_keys) ==
    IF keys_conflict(node._row_keys, row_keys)
    THEN [raised |-> TRUE, exc |-> "ValueError", node |-> node]
    ELSE [raised |-> FALSE, exc |-> "", node |-> [node EXCEPT !._row_keys = row_keys]]

(* Lines 46-57. *)
_set_row_keys(trees, node, row_keys) ==
    IF keys_conflict(node._row_keys, row_keys)
    THEN [raised |-> TRUE, exc |-> "ValueError", node |-> node]
    ELSE IF row_keys # NoKeys /\ CMRmatroiddecNumRows(trees, node._dec) # Len(row_keys)
    THEN [raised |-> TRUE, exc |-> "ValueError", node |-> node]
    ELSE [raised |-> FALSE, exc |-> "", node |-> [node EXCEPT !._row_keys = row_keys]]

(* Lines 59-70. *)
_set_column_keys(trees, node, column_keys) ==
    IF keys_conflict(node._column_keys, column_keys)
    THEN [raised |-> TRUE, exc |-> "ValueError", node |-> node]
    ELSE IF column_keys # NoKeys
            /\ CMRmatroiddecNumColumns(trees, node._dec) # Len(column_keys)
    THEN [raised |-> TRUE, exc |-> "ValueError", node |-> node]
    ELSE [raised |-> FALSE, exc |-> "",
          node |-> [node EXCEPT !._column_keys = column_keys]]

(* Lines 35-36: a new object of a class derived from DecompositionNode. *)
__cinit__ ==
    [__class__ |-> "DecompositionNode", _dec |-> NULL, _root |-> None,
     _row_keys |-> NoKeys, _column_keys |-> NoKeys]

(* Line 1058: the tag of a handle. *)
CMRmatroiddecType(trees, dec) == DecOf(trees, dec).type

(* Lines 1057-1084: the class of a handle.  The test of line 1067 is on the
   tag that line 1066 found to be GRAPH.  Line 1084 asserts the class
   NotImplementedError, which is true, and the function ends without a
   return: its value is None. *)
_class(trees, dec) ==
    LET typ == CMRmatroiddecType(trees, dec)
    IN  IF typ = CMR_MATROID_DEC_TYPE_ONE_SUM THEN "OneSumNode"
        ELSE IF typ = CMR_MATROID_DEC_TYPE_TWO_SUM THEN "TwoSumNode"
        ELSE IF typ = CMR_MATROID_DEC_TYPE_THREE_SUM THEN "ThreeSumNode"
        ELSE IF typ = CMR_MATROID_DEC_TYPE_GRAPH
        THEN IF typ = CMR_MATROID_DEC_TYPE_COGRAPH THEN "PlanarNode"
             ELSE "GraphicNode"
        ELSE IF typ = CMR_MATROID_DEC_TYPE_COGRAPH THEN "CographicNode"
        ELSE IF typ < -1 THEN "SpecialLeafNode"
        ELSE IF typ = CMR_MATROID_DEC_TYPE_SERIES_PARALLEL
        THEN "SeriesParallelReductionNode"
        ELSE IF typ = CMR_MATROID_DEC_TYPE_PIVOTS THEN "PivotsNode"
        ELSE IF typ = CMR_MATROID_DEC_TYPE_SUBMATRIX THEN "SubmatrixNode"
        ELSE IF typ = CMR_MATROID_DEC_TYPE_IRREGULAR THEN "ThreeConnectedIrregularNode"
        ELSE IF typ = CMR_MATROID_DEC_TYPE_UNKNOWN THEN "UnknownNode"
        ELSE "None"

(* Lines 1100-1106: create_DecompositionNode for dec # NULL, as
   [raised, exc, node].  Calling None (line 1100) raises TypeError before
   any object exists; node is then the blank of __cinit__, which is never
   made an object. *)
create_DecompositionNode(trees, self, dec, root, row_keys, column_keys) ==
    Bind(_class(trees, dec), LAMBDA cls :
    IF cls = "None"
    THEN [raised |-> TRUE, exc |-> "TypeError", node |-> __cinit__]
    ELSE
    Bind(_set_dec([__cinit__ EXCEPT !.__class__ = cls], self, dec, root).node,
         LAMBDA n1 :
    Bind(IF row_keys # NoKeys THEN _set_row_keys(trees, n1, row_keys)
         ELSE [raised |-> FALSE, exc |-> "", node |-> n1], LAMBDA r1 :
        IF r1.raised THEN r1
        ELSE IF column_keys # NoKeys THEN _set_column_keys(trees, r1.node, column_keys)
        ELSE r1)))

(* Lines 272-280, as [raised, exc, key]. *)
_CMRelement_to_key(node, element) ==
    IF ~element.valid
    THEN [raised |-> TRUE, exc |-> "ValueError", key |-> NoKeys[1]]
    ELSE IF node._row_keys = NoKeys \/ node._column_keys = NoKeys
    THEN [raised |-> TRUE, exc |-> "ValueError", key |-> NoKeys[1]]
    ELSE IF element.is_row
    THEN [raised |-> FALSE, exc |-> "",
          key |-> ElementKey(Get0(node._row_keys, element.index), FALSE)]
    ELSE [raised |-> FALSE, exc |-> "",
          key |-> ElementKey(Get0(node._column_keys, element.index), FALSE)]

(* tuple(self._CMRelement_to_key(elements[i]) for i in range(first, last)),
   as [raised, exc, keys]: the first element that raises ends it. *)
KeysOfElements(node, elements, first, last) ==
    LET ks == [i \in 1..(last - first) |->
                  _CMRelement_to_key(node, Get0(elements, first + i - 1))]
    IN  IF \E i \in DOMAIN ks : ks[i].raised
        THEN [raised |-> TRUE, exc |-> "ValueError", keys |-> NoKeys]
        ELSE [raised |-> FALSE, exc |-> "", keys |-> [i \in DOMAIN ks |-> ks[i].key]]

(* The result of a call that raised before it made an object. *)
Raised(exc) == [raised |-> TRUE, exc |-> exc, node |-> __cinit__]

(* _create_child_node handing the child its row keys only. *)
_create_child_node_rows_only(trees, self, node, child, index) ==
    LET child_dec == CMRmatroiddecChild(node._dec, index)
        parent_rows == DecOf(trees, child_dec).rows_parent
        root == IF node._root # None THEN node._root ELSE self
    IN  IF node._row_keys # NoKeys /\ node._column_keys # NoKeys
        THEN Bind(KeysOfElements(node, parent_rows, 0,
                                 CMRmatroiddecNumRows(trees, child_dec)),
                  LAMBDA child_row_keys :
             IF child_row_keys.raised THEN Raised(child_row_keys.exc)
             ELSE create_DecompositionNode(trees, child, child_dec, root,
                                           child_row_keys.keys, NoKeys))
        ELSE create_DecompositionNode(trees, child, child_dec, root, NoKeys, NoKeys)

(* Lines 282-299: self._create_child_node(index), self being the object
   node and the new object taking the identity child; as
   [raised, exc, node]. *)
_create_child_node(trees, self, node, child, index) ==
    LET child_dec == CMRmatroiddecChild(node._dec, index)
        parent_rows == DecOf(trees, child_dec).rows_parent
        parent_columns == DecOf(trees, child_dec).columns_parent
        root == IF node._root # None THEN node._root ELSE self
    IN  IF node._row_keys # NoKeys /\ node._column_keys # NoKeys
        THEN Bind(KeysOfElements(node, parent_rows, 0,
                                 CMRmatroiddecNumRows(trees, child_dec)),
                  LAMBDA child_row_keys :
             IF child_row_keys.raised THEN Raised(child_row_keys.exc)
             ELSE
             Bind(KeysOfElements(node, parent_columns, 0,
                                 CMRmatroiddecNumColumns(trees, child_dec)),
                  LAMBDA child_column_keys :
             IF child_column_keys.raised THEN Raised(child_column_keys.exc)
             ELSE create_DecompositionNode(trees, child, child_dec, root,
                                           child_row_keys.keys,
                                           child_column_keys.keys)))
        ELSE create_DecompositionNode(trees, child, child_dec, root, NoKeys, NoKeys)

(* Lines 72-73: __dealloc__; the handle given to CMRmatroiddecFree, or
   NULL. *)
__dealloc__(node, self) == _set_dec(node, self, NULL, None).freed

(* Line 42: the calls of CMRmatroiddecFree counted by handle. *)
CMRmatroiddecFree(calls, freed) ==
    IF freed = NULL THEN calls ELSE [calls EXCEPT ![freed] = @ + 1]

(***************************************************************************)
(* DecompositionNode objects and the calls made on them.                   *)
(***************************************************************************)
NodeReturn(op, self, arg, before, exc, freed) ==
    [op |-> op, self |-> self, arg |-> arg, before |-> before,
     raised |-> exc # "", exc |-> exc, freed |-> freed]

Init ==
    /\ NodeIdle
    /\ PalpIdle
    /\ MatIdle
    /\ ExtIdle

(* The handles of tree t, none freed yet. *)
HandlesOf(t, shape) == {<<t, k>> : k \in 0..Len(shape.children)}

(* CMR builds a decomposition and create_DecompositionNode(dec, None,
   row_keys, column_keys) wraps its root.  When the keys are refused the
   new node is torn down. *)
NodeCreateRoot ==
    /\ node_made < NodeMaxNodes
    /\ Cardinality(DOMAIN dec_trees) < NodeMaxTrees
    /\ \E shape \in DecShapes, row_keys \in NodeKeyArgs, column_keys \in NodeKeyArgs :
       LET t    == Cardinality(DOMAIN dec_trees) + 1
           self == node_made + 1
           dec  == <<t, 0>>
           trees == (t :> shape) @@ dec_trees
           calls == [h \in HandlesOf(t, shape) |-> 0] @@ dec_calls
       IN  /\ dec_trees' = trees
           /\ node_made' = self
           /\ \E r \in {create_DecompositionNode(trees, self, dec, None,
                                                 row_keys, column_keys)} :
              IF r.raised
              THEN /\ dec_calls' = CMRmatroiddecFree(calls, __dealloc__(r.node, self))
                   /\ node_ret' = NodeReturn("create_DecompositionNode", self,
                                             <<row_keys, column_keys>>, r.node,
                                             r.exc, __dealloc__(r.node, self))
                   /\ UNCHANGED node_objs
              ELSE /\ dec_calls' = calls
                   /\ node_ret' = NodeReturn("create_DecompositionNode", self,
                                             <<row_keys, column_keys>>, r.node,
                                             "", NULL)
                   /\ node_objs' = (self :> r.node) @@ node_objs
    /\ UNCHANGED node_cache
    /\ UNCHANGED <<palp_vars, mat_vars, ext_vars>>

(* Lines 282-299: self._create_child_node(index) on the object node, the
   child taking the identity child. *)
NodeCreateChild ==
    /\ node_made < NodeMaxNodes
    /\ \E parent \in DOMAIN node_objs :
       \E index \in 0..(CMRmatroiddecNumChildren(dec_trees, node_objs[parent]._dec) - 1) :
       LET self == node_made + 1
       IN  /\ node_made' = self
           /\ \E r \in {_create_child_node(dec_trees, parent, node_objs[parent],
                                           self, index)} :
              IF r.raised
              THEN /\ dec_calls' = CMRmatroiddecFree(dec_calls, __dealloc__(r.node, self))
                   /\ node_ret' = NodeReturn("_create_child_node", self,
                                             <<parent, index>>, r.node,
                                             r.exc, __dealloc__(r.node, self))
                   /\ UNCHANGED node_objs
              ELSE /\ node_objs' = (self :> r.node) @@ node_objs
                   /\ node_ret' = NodeReturn("_create_child_node", self,
                                             <<parent, index>>, r.node, "", NULL)
                   /\ UNCHANGED dec_calls
    /\ UNCHANGED <<dec_trees, node_cache>>
    /\ UNCHANGED <<palp_vars, mat_vars, ext_vars>>

(* Lines 46-57: node._set_row_keys(row_keys). *)
NodeSetRowKeys ==
    /\ \E self \in DOMAIN node_objs, row_keys \in NodeKeyArgs :
       \E r \in {_set_row_keys(dec_trees, node_objs[self], row_keys)} :
          /\ node_objs' = [node_objs EXCEPT ![self] = r.node]
          /\ node_ret' = NodeReturn("_set_row_keys", self, row_keys,
                                    node_objs[self], r.exc, NULL)
    /\ UNCHANGED <<node_made, dec_trees, dec_calls, node_cache>>
    /\ UNCHANGED <<palp_vars, mat_vars, ext_vars>>

(* Lines 59-70: node._set_column_keys(column_keys). *)
NodeSetColumnKeys ==
    /\ \E self \in DOMAIN node_objs, column_keys \in NodeKeyArgs :
       \E r \in {_set_column_keys(dec_trees, node_objs[self], column_keys)} :
          /\ node_objs' = [node_objs EXCEPT ![self] = r.node]
          /\ node_ret' = NodeReturn("_set_column_keys", self, column_keys,
                                    node_objs[self], r.exc, NULL)
    /\ UNCHANGED <<node_made, dec_trees, dec_calls, node_cache>>
    /\ UNCHANGED <<palp_vars, mat_vars, ext_vars>>

(* Lines 72-73: the last reference to a node goes away.  A node that is the
   _root of another live node is still referenced. *)
NodeDealloc ==
    /\ \E self \in DOMAIN node_objs :
          /\ \A other \in DOMAIN node_objs : other # self => node_objs[other]._root # self
          /\ dec_calls' = CMRmatroiddecFree(dec_calls,
                                             __dealloc__(node_objs[self], self))
          /\ node_objs' = [n \in DOMAIN node_objs \ {self} |-> node_objs[n]]
          /\ node_ret' = NodeReturn("__dealloc__", self, <<>>, node_objs[self],
                                    "", __dealloc__(node_objs[self], self))
    /\ UNCHANGED <<node_made, dec_trees, node_cache>>
    /\ UNCHANGED <<palp_vars, mat_vars, ext_vars>>

Next ==
    \/ NodeCreateRoot
    \/ NodeCreateChild
    \/ NodeSetRowKeys
    \/ NodeSetColumnKeys
    \/ NodeDealloc

Spec == Init /\ [][Next]_vars

(***************************************************************************)
(* Claims about DecompositionNode.                                         *)
(***************************************************************************)
(* How often the memory of a handle was released: CMRmatroiddecFree on a
   root releases the whole decomposition. *)
Released(h) ==
    dec_calls[h] + (IF h[2] # 0 THEN dec_calls[<<h[1], 0>>] ELSE 0)

(* The last call ended the life of its node: a teardown, or a creation
   whose keys were refused. *)
TornDown ==
    \/ node_ret.op = "__dealloc__"
    \/ node_ret.op \in {"create_DecompositionNode", "_create_child_node"}
          /\ node_ret.raised

\* C9: only the root owns the native handle: a teardown gives the handle to
\* CMRmatroiddecFree exactly when the node's _root is None or the node itself
\* and the handle is not NULL; the handle of a child is never given to it,
\* and in any order of teardowns no handle is released twice.
C9_HandleFreedOnceByOwner ==
    /\ \A h \in DOMAIN dec_calls :
          /\ Released(h) <= 1
          /\ h[2] # 0 => dec_calls[h] = 0
    /\ TornDown =>
          LET n == node_ret.before
              owner == n._root = None \/ n._root = node_ret.self
          IN  IF owner /\ n._dec # NULL
              THEN node_ret.freed = n._dec
              ELSE node_ret.freed = NULL

C9_Witness ==
    /\ node_ret.op = "__dealloc__"
    /\ node_ret.self = 1
    /\ node_ret.freed = <<1, 0>>
    /\ node_made = 3
    /\ DOMAIN dec_trees = {1}
    /\ DOMAIN node_objs = {}
    /\ dec_calls[<<1, 0>>] = 1

\* C10: once the row keys (column keys) of a node are not None, a later
\* _set_row_keys (_set_column_keys) with a different value, None included,
\* raises ValueError and keeps the stored keys; with an equal value it
\* succeeds and keeps them.
C10_KeysSetOnce ==
    /\ (node_ret.op = "_set_row_keys" /\ node_ret.before._row_keys # NoKeys) =>
          /\ node_objs[node_ret.self]._row_keys = node_ret.before._row_keys
          /\ node_ret.raised <=> (node_ret.arg # node_ret.before._row_keys)
    /\ (node_ret.op = "_set_column_keys" /\ node_ret.before._column_keys # NoKeys) =>
          /\ node_objs[node_ret.self]._column_keys = node_ret.before._column_keys
          /\ node_ret.raised <=> (node_ret.arg # node_ret.before._column_keys)

C10_Witness ==
    /\ node_ret.op = "_set_column_keys"
    /\ node_ret.before._column_keys = <<ElementKey(PyKey("b"), FALSE)>>
    /\ node_ret.arg = <<PyKey("b")>>
    /\ node_ret.raised
    /\ node_objs[node_ret.self]._column_keys = <<ElementKey(PyKey("b"), FALSE)>>


(***************************************************************************)
(* Decomposition trees: the children of a node.                            *)
(*                                                                         *)
(* A decomposition is a root handle with its child handles.  A child       *)
(* handle carries the elements of its parent that its rows and columns     *)
(* come from, and its matrix as a CMR_CHRMAT.                              *)
(***************************************************************************)
(* An element that CMRelementIsValid refuses: an extra row or column. *)
InvalidElement == [valid |-> FALSE, is_row |-> FALSE, index |-> 0]

(* The nonzeros of a matrix given by its rows, in row-major order, as
   positions r * numColumns + c. *)
NonzerosOfRows(rows) ==
    LET nc == Len(rows[1])
        NZ == {k \in 0..(Len(rows) * nc - 1) : rows[(k \div nc) + 1][(k % nc) + 1] # 0}
    IN  [i \in 1..Cardinality(NZ) |->
            CHOOSE k \in NZ : Cardinality({j \in NZ : j < k}) = i - 1]

(* The CMR_CHRMAT of the matrix with the given rows: the nonzeros by row,
   each row by column. *)
ChrmatOfRows(rows) ==
    LET nc == Len(rows[1])
        nz == NonzerosOfRows(rows)
    IN  [numRows      |-> Len(rows),
         numColumns   |-> nc,
         numNonzeros  |-> Len(nz),
         rowSlice     |-> [r \in 1..(Len(rows) + 1) |->
                              Cardinality({i \in DOMAIN nz : nz[i] \div nc < r - 1})],
         entryColumns |-> [i \in DOMAIN nz |-> nz[i] % nc],
         entryValues  |-> [i \in DOMAIN nz |->
                              rows[(nz[i] \div nc) + 1][(nz[i] % nc) + 1]]]

(* A child handle. *)
ChildDec(type, rows, rows_parent, columns_parent) ==
    [type |-> type, nrows |-> Len(rows), ncols |-> Len(rows[1]),
     rows_parent |-> rows_parent, columns_parent |-> columns_parent,
     mat |-> ChrmatOfRows(rows)]

(* A root handle. *)
RootDec(type, nrows, ncols, concentrated, children) ==
    [type |-> type, nrows |-> nrows, ncols |-> ncols,
     concentrated |-> concentrated, children |-> children]

(* The tags of CMR_MATROID_DEC_TYPE. *)
DecTypes == CMR_MATROID_DEC_TYPE_DETERMINANT..CMR_MATROID_DEC_TYPE_PLANAR

(* A tag that CMR_MATROID_DEC_TYPE does not have. *)
NoDecType == CMR_MATROID_DEC_TYPE_PLANAR + 1

(* A handle without children, of every tag and of a tag that is none. *)
LeafShapes == {RootDec(typ, 1, 1, FALSE, <<>>) : typ \in DecTypes \cup {NoDecType}}

(* The summands of a 1-sum or 2-sum of a 2 x 2 matrix, and the orders in
   which CMR may enumerate them. *)
SummandOrders ==
    LET first  == ChildDec(CMR_MATROID_DEC_TYPE_GRAPH, <<<<1>>>>,
                           <<RowElement(0)>>, <<ColumnElement(0)>>)
        second == ChildDec(CMR_MATROID_DEC_TYPE_GRAPH, <<<<1>>>>,
                           <<RowElement(1)>>, <<ColumnElement(1)>>)
    IN  {<<first, second>>, <<second, first>>}

SumShapes ==
    {RootDec(typ, 2, 2, FALSE, children) :
        typ \in {CMR_MATROID_DEC_TYPE_ONE_SUM, CMR_MATROID_DEC_TYPE_TWO_SUM},
        children \in SummandOrders}

(* A series-parallel reduction of a 2 x 2 matrix to its 1 x 1 core. *)
ReductionShapes ==
    {RootDec(CMR_MATROID_DEC_TYPE_SERIES_PARALLEL, 2, 2, FALSE,
             <<ChildDec(CMR_MATROID_DEC_TYPE_GRAPH, <<<<1>>>>,
                        <<RowElement(1)>>, <<ColumnElement(0)>>)>>)}

(* The entries of a totally unimodular matrix. *)
Signs == {0 - 1, 0, 1}

(* The first summand of a 3-sum of a 3 x 3 matrix: rows 0 and 1 of the
   parent, its columns 0 and 1, and an extra column. *)
FirstSummands ==
    {ChildDec(CMR_MATROID_DEC_TYPE_GRAPH,
              <<<<a, 0, e1>>, <<0, 1, e2>>>>,
              <<RowElement(0), RowElement(1)>>,
              <<ColumnElement(0), ColumnElement(1), InvalidElement>>) :
        a \in Signs \ {0}, e1 \in Signs, e2 \in Signs}

(* The second summand with distributed ranks: an extra column, then
   columns 1 and 2 of the parent; its first row was a column of the parent
   before a pivot. *)
SecondSummandsDistributed ==
    {ChildDec(CMR_MATROID_DEC_TYPE_GRAPH,
              <<<<f1, f2, 1>>, <<1, 0, 1>>>>,
              <<ColumnElement(0), RowElement(2)>>,
              <<InvalidElement, ColumnElement(1), ColumnElement(2)>>) :
        f1 \in Signs, f2 \in Signs}

(* The second summand with concentrated rank: an extra row, then rows 1
   and 2 of the parent. *)
SecondSummandsConcentrated ==
    {ChildDec(CMR_MATROID_DEC_TYPE_GRAPH,
              <<<<f1, f2>>, <<1, 0>>, <<1, 1>>>>,
              <<InvalidElement, RowElement(1), RowElement(2)>>,
              <<ColumnElement(1), ColumnElement(2)>>) :
        f1 \in Signs, f2 \in Signs}

ThreeSumShapes ==
    {RootDec(CMR_MATROID_DEC_TYPE_THREE_SUM, 3, 3, FALSE, <<c1, c2>>) :
        c1 \in FirstSummands, c2 \in SecondSummandsDistributed}
    \cup
    {RootDec(CMR_MATROID_DEC_TYPE_THREE_SUM, 3, 3, TRUE, <<c1, c2>>) :
        c1 \in FirstSummands, c2 \in SecondSummandsConcentrated}

(* 3-sum handles that report another number of children. *)
BrokenThreeSumShapes ==
    LET c1 == ChildDec(CMR_MATROID_DEC_TYPE_GRAPH, <<<<1, 0, 1>>, <<0, 1, 1>>>>,
                       <<RowElement(0), RowElement(1)>>,
                       <<ColumnElement(0), ColumnElement(1), InvalidElement>>)
    IN  {RootDec(CMR_MATROID_DEC_TYPE_THREE_SUM, 3, 3, conc, children) :
            conc \in BOOLEAN, children \in {<<c1>>, <<c1, c1, c1>>}}

TreeShapes ==
    LeafShapes \cup SumShapes \cup ReductionShapes \cup ThreeSumShapes
    \cup BrokenThreeSumShapes

(* row_keys=range(6), column_keys='abcdef' of the doctest, to the size
   of the matrix. *)
RowLabels == <<"0", "1", "2">>

ColumnLabels == <<"a", "b", "c">>

(* What the caller of is_totally_unimodular may pass as keys of n rows
   or columns: nothing, a key for each, or one key too few. *)
TreeKeyArgs(labels, n) ==
    {NoKeys, [i \in 1..n |-> PyKey(labels[i])], [i \in 1..(n - 1) |-> PyKey(labels[i])]}

(* Lines 660 and 665: CMRmatroiddecGetMatrix of a child handle. *)
CMRmatroiddecGetMatrix(trees, dec) == DecOf(trees, dec).mat

(* Lines 196-197: CMRmatroiddecRowsParent and CMRmatroiddecColumnsParent,
   NULL (no elements) for a root. *)
CMRmatroiddecRowsParent(trees, dec) ==
    IF dec[2] = 0 THEN <<>> ELSE DecOf(trees, dec).rows_parent

CMRmatroiddecColumnsParent(trees, dec) ==
    IF dec[2] = 0 THEN <<>> ELSE DecOf(trees, dec).columns_parent

(* Lines 198-205 and 206-213: one half of parent_rows_and_columns; None is
   NoKeys, and an element equal to 0 is an invalid one. *)
ParentTuple(elements, keys) ==
    IF \A i \in DOMAIN elements : ~elements[i].valid THEN NoKeys
    ELSE IF keys # NoKeys THEN keys
    ELSE [i \in DOMAIN elements |-> elements[i].index]

(* Lines 196-215. *)
parent_rows_and_columns(trees, node) ==
    <<ParentTuple(CMRmatroiddecRowsParent(trees, node._dec), node._row_keys),
      ParentTuple(CMRmatroiddecColumnsParent(trees, node._dec), node._column_keys)>>

(* Lines 340-341: DecompositionNode._children on the object node of
   identity self, when made objects exist; as [raised, exc, nodes], the
   new objects taking the identities after made.  The children are in the
   order of their index. *)
_children(trees, self, node, made) ==
    LET n  == CMRmatroiddecNumChildren(trees, node._dec)
        rs == [i \in 1..n |-> _create_child_node(trees, self, node, made + i, i - 1)]
    IN  IF \E i \in 1..n : rs[i].raised
        THEN [raised |-> TRUE,
              exc |-> rs[CHOOSE i \in 1..n :
                            rs[i].raised /\ \A j \in 1..(i - 1) : ~rs[j].raised].exc,
              nodes |-> <<>>]
        ELSE [raised |-> FALSE, exc |-> "", nodes |-> [i \in 1..n |-> rs[i].node]]

(* Line 784: is_concentrated_rank. *)
is_concentrated_rank(trees, node) == DecOf(trees, node._dec).concentrated

(* Lines 682-686 (and 688-692, 701-705, 721-725, 727-731, 740-744): the
   entry found in mat at (row, column), read from the entry values of
   values; 0 when mat has no such entry. *)
epsilon(mat, values, row, column) ==
    LET index == CMRchrmatFindEntry(mat, row, column)
    IN  IF index = SizeMax THEN 0 ELSE Get0(values.entryValues, index)

(* The key of line 694 with the two rows exchanged. *)
child1_rows_exchanged(row_keys, mat1, child1_nrows, child1_ncols) ==
    ElementKey(<<epsilon(mat1, mat1, child1_nrows - 2, child1_ncols - 1),
                 Get0(row_keys, child1_nrows - 1),
                 epsilon(mat1, mat1, child1_nrows - 1, child1_ncols - 1),
                 Get0(row_keys, child1_nrows - 2)>>, TRUE)

(* Lines 682-694: the last column key of child 1, Mixed_Mixed. *)
child1_column_key_Mixed_Mixed(row_keys, mat1, child1_nrows, child1_ncols) ==
    ElementKey(<<epsilon(mat1, mat1, child1_nrows - 2, child1_ncols - 1),
                 Get0(row_keys, child1_nrows - 2),
                 epsilon(mat1, mat1, child1_nrows - 1, child1_ncols - 1),
                 Get0(row_keys, child1_nrows - 1)>>, TRUE)

(* The key of lines 707-708 with the sign taken for present. *)
child1_sign_present(row_keys, column_keys, mat1, child1_nrows, child1_ncols) ==
    ElementKey(<<1, Get0(column_keys, child1_ncols - 1),
                 1, Get0(row_keys, child1_nrows - 1)>>, TRUE)

(* Lines 701-708: the last column key of child 1, Wide_Wide. *)
child1_column_key_Wide_Wide(row_keys, column_keys, mat1, child1_nrows, child1_ncols) ==
    ElementKey(<<1, Get0(column_keys, child1_ncols - 1),
                 epsilon(mat1, mat1, child1_nrows - 1, child1_ncols - 1),
                 Get0(row_keys, child1_nrows - 1)>>, TRUE)

(* Lines 721-733: the first row key of child 2, Mixed_Mixed.  The entries
   are found in mat2 and read from mat1.entryValues (lines 725, 731). *)
child2_row_key_Mixed_Mixed(column_keys, mat1, mat2) ==
    ElementKey(<<epsilon(mat2, mat1, 0, 0), Get0(column_keys, 0),
                 epsilon(mat2, mat1, 0, 1), Get0(column_keys, 1)>>, TRUE)

(* The key of line 748 made of the first column key of the parent. *)
child2_column_key_of_column_0(row_keys, column_keys, mat1, mat2) ==
    ElementKey(<<1, Get0(column_keys, 0),
                 epsilon(mat2, mat1, 0, 0), Get0(row_keys, 0)>>, TRUE)

(* Lines 740-748: the first column key of child 2, Wide_Wide.  The entry
   is found in mat2 and read from mat1.entryValues (line 744). *)
child2_column_key_Wide_Wide(row_keys, column_keys, mat1, mat2) ==
    ElementKey(<<1, Get0(column_keys, 1),
                 epsilon(mat2, mat1, 0, 0), Get0(row_keys, 0)>>, TRUE)

(* A pair of key tuples, or what raised on the way to it. *)
KeysRaised(exc) ==
    [raised |-> TRUE, exc |-> exc, row_keys |-> NoKeys, column_keys |-> NoKeys]

(* Lines 673-708: child1_row_keys and child1_column_keys. *)
child1_keys(trees, node, child1_dec) ==
    LET child1_nrows == CMRmatroiddecNumRows(trees, child1_dec)
        child1_ncols == CMRmatroiddecNumColumns(trees, child1_dec)
        mat1 == CMRmatroiddecGetMatrix(trees, child1_dec)
    IN  Bind(KeysOfElements(node, CMRmatroiddecRowsParent(trees, child1_dec),
                            0, child1_nrows), LAMBDA rows :
        IF rows.raised THEN KeysRaised(rows.exc)
        ELSE
        Bind(KeysOfElements(node, CMRmatroiddecColumnsParent(trees, child1_dec),
                            0, child1_ncols - 1), LAMBDA columns :
        IF columns.raised THEN KeysRaised(columns.exc)
        ELSE [raised |-> FALSE, exc |-> "",
              row_keys |-> rows.keys,
              column_keys |->
                  Append(columns.keys,
                         IF is_concentrated_rank(trees, node)
                         THEN child1_column_key_Mixed_Mixed(
                                  node._row_keys, mat1, child1_nrows, child1_ncols)
                         ELSE child1_column_key_Wide_Wide(
                                  node._row_keys, node._column_keys, mat1,
                                  child1_nrows, child1_ncols))]))

(* Lines 714-748: child2_row_keys and child2_column_keys. *)
child2_keys(trees, node, child1_dec, child2_dec) ==
    LET child2_nrows == CMRmatroiddecNumRows(trees, child2_dec)
        child2_ncols == CMRmatroiddecNumColumns(trees, child2_dec)
        mat1 == CMRmatroiddecGetMatrix(trees, child1_dec)
        mat2 == CMRmatroiddecGetMatrix(trees, child2_dec)
        conc == is_concentrated_rank(trees, node)
    IN  Bind(KeysOfElements(node, CMRmatroiddecRowsParent(trees, child2_dec),
                            IF conc THEN 1 ELSE 0, child2_nrows), LAMBDA rows :
        IF rows.raised THEN KeysRaised(rows.exc)
        ELSE
        Bind(KeysOfElements(node, CMRmatroiddecColumnsParent(trees, child2_dec),
                            IF conc THEN 0 ELSE 1, child2_ncols), LAMBDA columns :
        IF columns.raised THEN KeysRaised(columns.exc)
        ELSE IF conc
        THEN [raised |-> FALSE, exc |-> "",
              row_keys |-> <<child2_row_key_Mixed_Mixed(node._column_keys, mat1, mat2)>>
                           \o rows.keys,
              column_keys |-> columns.keys]
        ELSE [raised |-> FALSE, exc |-> "",
              row_keys |-> rows.keys,
              column_keys |-> <<child2_column_key_Wide_Wide(
                                    node._row_keys, node._column_keys, mat1, mat2)>>
                              \o columns.keys]))

(* nchildren() that reports at most 2 children. *)
nchildren_at_most_two(trees, dec) ==
    IF CMRmatroiddecNumChildren(trees, dec) > 2
    THEN 2 ELSE CMRmatroiddecNumChildren(trees, dec)

(* Lines 266-270, called at line 654: nchildren(). *)
nchildren(trees, dec) == CMRmatroiddecNumChildren(trees, dec)

(* Lines 654-756: ThreeSumNode._children on the object node of identity
   self, when made objects exist; as [raised, exc, nodes], child 1 taking
   the identity made + 1 and child 2 the identity made + 2. *)
ThreeSumNode_children(trees, self, node, made) ==
    IF nchildren(trees, node._dec) # 2
    THEN [raised |-> TRUE, exc |-> "ValueError", nodes |-> <<>>]
    ELSE
    LET child1_dec == CMRmatroiddecChild(node._dec, 0)
        child2_dec == CMRmatroiddecChild(node._dec, 1)
        root == IF node._root # None THEN node._root ELSE self
        failed(exc) == [raised |-> TRUE, exc |-> exc, nodes |-> <<>>]
    IN  IF node._row_keys # NoKeys /\ node._column_keys # NoKeys
        THEN Bind(child1_keys(trees, node, child1_dec), LAMBDA keys1 :
             IF keys1.raised THEN failed(keys1.exc)
             ELSE
             Bind(create_DecompositionNode(trees, made + 1, child1_dec, root,
                                           keys1.row_keys, keys1.column_keys),
                  LAMBDA child1 :
             IF child1.raised THEN failed(child1.exc)
             ELSE
             Bind(child2_keys(trees, node, child1_dec, child2_dec), LAMBDA keys2 :
             IF keys2.raised THEN failed(keys2.exc)
             ELSE
             Bind(create_DecompositionNode(trees, made + 2, child2_dec, root,
                                           keys2.row_keys, keys2.column_keys),
                  LAMBDA child2 :
             IF child2.raised THEN failed(child2.exc)
             ELSE [raised |-> FALSE, exc |-> "",
                   nodes |-> <<child1.node, child2.node>>]))))
        ELSE Bind(create_DecompositionNode(trees, made + 1, child1_dec, root,
                                           NoKeys, NoKeys), LAMBDA child1 :
             IF child1.raised THEN failed(child1.exc)
             ELSE
             Bind(create_DecompositionNode(trees, made + 2, child2_dec, root,
                                           NoKeys, NoKeys), LAMBDA child2 :
             IF child2.raised THEN failed(child2.exc)
             ELSE [raised |-> FALSE, exc |-> "",
                   nodes |-> <<child1.node, child2.node>>]))

(***************************************************************************)
(* A decomposition, its root node and the children of the nodes.           *)
(***************************************************************************)
(* is_totally_unimodular(certificate=True, row_keys, column_keys): CMR
   builds the decomposition and create_DecompositionNode(dec, None,
   row_keys, column_keys) wraps its root. *)
TreeCertify ==
    /\ DOMAIN dec_trees = {}
    /\ \E shape \in TreeShapes :
       \E row_keys \in TreeKeyArgs(RowLabels, shape.nrows),
          column_keys \in TreeKeyArgs(ColumnLabels, shape.ncols) :
       LET self == node_made + 1
           dec  == <<1, 0>>
           trees == 1 :> shape
           calls == [h \in HandlesOf(1, shape) |-> 0]
       IN  /\ dec_trees' = trees
           /\ node_made' = self
           /\ \E r \in {create_DecompositionNode(trees, self, dec, None,
                                                 row_keys, column_keys)} :
              IF r.raised
              THEN /\ dec_calls' = CMRmatroiddecFree(calls, __dealloc__(r.node, self))
                   /\ node_ret' = NodeReturn("create_DecompositionNode", self,
                                             <<row_keys, column_keys>>, r.node,
                                             r.exc, __dealloc__(r.node, self))
                   /\ UNCHANGED node_objs
              ELSE /\ dec_calls' = calls
                   /\ node_ret' = NodeReturn("create_DecompositionNode", self,
                                             <<row_keys, column_keys>>, r.node,
                                             "", NULL)
                   /\ node_objs' = (self :> r.node) @@ node_objs
    /\ UNCHANGED node_cache
    /\ UNCHANGED <<palp_vars, mat_vars, ext_vars>>

(* The outcome of a first call of _children() on self: the new objects are
   live and the tuple is cached, or the call raised and nothing is kept. *)
ChildrenReturn(self, r) ==
    LET ids == [i \in 1..Len(r.nodes) |-> node_made + i]
    IN  /\ node_ret' = NodeReturn("_children", self, <<>>, node_objs[self], r.exc, NULL)
        /\ IF r.raised
           THEN UNCHANGED <<node_objs, node_made, node_cache>>
           ELSE /\ node_objs' = [i \in {ids[k] : k \in DOMAIN ids} |->
                                    r.nodes[i - node_made]] @@ node_objs
                /\ node_made' = node_made + Len(r.nodes)
                /\ node_cache' = (self :> ids) @@ node_cache
        /\ UNCHANGED <<dec_trees, dec_calls>>
        /\ UNCHANGED <<palp_vars, mat_vars, ext_vars>>

(* Lines 301-341: node._children() of a node that is not a ThreeSumNode. *)
TreeChildren ==
    \E self \in DOMAIN node_objs :
       /\ self \notin DOMAIN node_cache
       /\ node_objs[self].__class__ # "ThreeSumNode"
       /\ \E r \in {_children(dec_trees, self, node_objs[self], node_made)} :
             ChildrenReturn(self, r)

(* Lines 599-756: node._children() of a ThreeSumNode. *)
TreeThreeSumChildren ==
    \E self \in DOMAIN node_objs :
       /\ self \notin DOMAIN node_cache
       /\ node_objs[self].__class__ = "ThreeSumNode"
       /\ \E r \in {ThreeSumNode_children(dec_trees, self, node_objs[self], node_made)} :
             ChildrenReturn(self, r)

TreeNext ==
    \/ TreeCertify
    \/ TreeChildren
    \/ TreeThreeSumChildren

TreeSpec == Init /\ [][TreeNext]_vars


(***************************************************************************)
(* Claims about the keys, the classes and the children of nodes.           *)
(***************************************************************************)
(* The call that just returned made or tried to make the root node. *)
RootCreated == node_ret.op = "create_DecompositionNode"

(* The call that just returned is _children() of the ThreeSumNode
   node_ret.before, and it returned the cached tuple. *)
ThreeSumChildrenReturned ==
    /\ node_ret.op = "_children"
    /\ node_ret.before.__class__ = "ThreeSumNode"
    /\ ~node_ret.raised

(* nrows() and ncols() of the handle h, from the decomposition. *)
RowsOfHandle(h) ==
    IF h[2] = 0 THEN dec_trees[h[1]].nrows ELSE dec_trees[h[1]].children[h[2]].nrows

ColumnsOfHandle(h) ==
    IF h[2] = 0 THEN dec_trees[h[1]].ncols ELSE dec_trees[h[1]].children[h[2]].ncols

\* C11: the row keys of every node, a root, a child of generic derivation
\* or a child of a 3-sum of either strategy, are None or as many as nrows(),
\* its column keys are None or as many as ncols(); keys of another length
\* given to a new root raise ValueError and are not stored.
C11_KeysMatchDimensions ==
    /\ \A n \in DOMAIN node_objs :
          /\ node_objs[n]._row_keys # NoKeys =>
                Len(node_objs[n]._row_keys) = RowsOfHandle(node_objs[n]._dec)
          /\ node_objs[n]._column_keys # NoKeys =>
                Len(node_objs[n]._column_keys) = ColumnsOfHandle(node_objs[n]._dec)
    /\ (RootCreated /\ node_ret.exc # "TypeError") =>
          LET row_keys == node_ret.arg[1]
              column_keys == node_ret.arg[2]
              rows_fit == row_keys = NoKeys \/ Len(row_keys) = dec_trees[1].nrows
              columns_fit == column_keys = NoKeys \/ Len(column_keys) = dec_trees[1].ncols
          IN  /\ node_ret.raised <=> ~(rows_fit /\ columns_fit)
              /\ node_ret.raised => node_ret.exc = "ValueError"
              /\ ~rows_fit => node_ret.before._row_keys = NoKeys
              /\ ~columns_fit => node_ret.before._column_keys = NoKeys

C11_Witness ==
    /\ ThreeSumChildrenReturned
    /\ dec_trees[1].concentrated
    /\ node_ret.before._row_keys # NoKeys
    /\ \A k \in 1..2 :
          /\ Len(node_objs[node_cache[node_ret.self][k]]._row_keys)
                = dec_trees[1].children[k].nrows
          /\ Len(node_objs[node_cache[node_ret.self][k]]._column_keys)
                = dec_trees[1].children[k].ncols

(* The node variants. *)
NodeVariants ==
    {"OneSumNode", "TwoSumNode", "ThreeSumNode", "ThreeConnectedIrregularNode",
     "GraphicNode", "CographicNode", "PlanarNode", "SeriesParallelReductionNode",
     "SpecialLeafNode", "PivotsNode", "SubmatrixNode", "UnknownNode"}

\* C12: _class is total: create_DecompositionNode on a handle of any tag of
\* CMR_MATROID_DEC_TYPE returns a node of one of the node variants, and on a
\* handle of a tag that is none of them it fails with an error.
C12_ClassificationTotal ==
    (RootCreated /\ node_ret.arg = <<NoKeys, NoKeys>>) =>
        IF dec_trees[1].type \in DecTypes
        THEN /\ ~node_ret.raised
             /\ node_ret.before.__class__ \in NodeVariants
        ELSE node_ret.raised

\* C13: a handle that is graphic and cographic becomes a PlanarNode, a
\* graphic one a GraphicNode, a cographic one a CographicNode.
C13_PlanarGraphicCographic ==
    (RootCreated /\ node_ret.arg = <<NoKeys, NoKeys>>) =>
        /\ dec_trees[1].type = CMR_MATROID_DEC_TYPE_PLANAR =>
              ~node_ret.raised /\ node_ret.before.__class__ = "PlanarNode"
        /\ dec_trees[1].type = CMR_MATROID_DEC_TYPE_GRAPH =>
              ~node_ret.raised /\ node_ret.before.__class__ = "GraphicNode"
        /\ dec_trees[1].type = CMR_MATROID_DEC_TYPE_COGRAPH =>
              ~node_ret.raised /\ node_ret.before.__class__ = "CographicNode"

(* The step is a call of _create_child_node that returned a child. *)
ChildDerived ==
    /\ node_made' = node_made + 1
    /\ node_ret'.op = "_create_child_node"
    /\ ~node_ret'.raised

\* C14: a child made by _create_child_node has row keys and column keys
\* when the parent has both, and has neither when the parent lacks its row
\* keys or its column keys; the parent is the same object after the call.
C14_ChildKeysIffParentKeys ==
    [][ChildDerived =>
          LET parent == node_objs[node_ret'.arg[1]]
              child == node_objs'[node_ret'.self]
          IN  /\ node_objs'[node_ret'.arg[1]] = parent
              /\ IF parent._row_keys # NoKeys /\ parent._column_keys # NoKeys
                 THEN child._row_keys # NoKeys /\ child._column_keys # NoKeys
                 ELSE child._row_keys = NoKeys /\ child._column_keys = NoKeys]_vars

C14_Witness ==
    /\ node_ret.op = "_create_child_node"
    /\ ~node_ret.raised
    /\ node_objs[node_ret.arg[1]]._row_keys # NoKeys
    /\ node_objs[node_ret.arg[1]]._column_keys # NoKeys
    /\ node_objs[node_ret.self]._row_keys # NoKeys
    /\ node_objs[node_ret.self]._column_keys # NoKeys

(* a <= b for tuples of integers, as Python compares them. *)
TupleLE(a, b) ==
    \/ \E k \in 1..(IF Len(a) < Len(b) THEN Len(a) ELSE Len(b)) :
          /\ \A j \in 1..(k - 1) : a[j] = b[j]
          /\ a[k] < b[k]
    \/ /\ Len(a) <= Len(b)
       /\ \A j \in 1..Len(a) : a[j] = b[j]

(* p <= q for pairs (rows, columns) of tuples of integers. *)
ParentsLE(p, q) ==
    IF p[1] = q[1] THEN TupleLE(p[2], q[2]) ELSE TupleLE(p[1], q[1])

(* The call that just returned is _children() of a node without keys that
   is not a ThreeSumNode, and it returned the cached tuple. *)
GenericChildrenReturned ==
    /\ node_ret.op = "_children"
    /\ node_ret.before.__class__ # "ThreeSumNode"
    /\ node_ret.before._row_keys = NoKeys
    /\ node_ret.before._column_keys = NoKeys
    /\ ~node_ret.raised

\* C15: the tuple that _children() returns for a node that is not a
\* ThreeSumNode is sorted by parent_rows_and_columns(), whatever the order
\* in which the decomposition enumerates the children.
C15_ChildrenSorted ==
    GenericChildrenReturned =>
        LET children == node_cache[node_ret.self]
        IN  \A i \in 1..(Len(children) - 1) :
               ParentsLE(parent_rows_and_columns(dec_trees, node_objs[children[i]]),
                         parent_rows_and_columns(dec_trees, node_objs[children[i + 1]]))

(* The call that just returned is _children() of a ThreeSumNode. *)
ThreeSumChildrenCalled ==
    /\ node_ret.op = "_children"
    /\ node_ret.before.__class__ = "ThreeSumNode"

\* C16: _children() of a ThreeSumNode raises ValueError and caches nothing
\* when the handle has a number of children other than 2, and what it
\* returns is two nodes, the child of index 0 and then the child of index 1.
C16_ThreeSumTwoChildren ==
    ThreeSumChildrenCalled =>
        LET self == node_ret.self
            dec == node_ret.before._dec
        IN  /\ CMRmatroiddecNumChildren(dec_trees, dec) # 2 =>
                  /\ node_ret.exc = "ValueError"
                  /\ self \notin DOMAIN node_cache
            /\ ~node_ret.raised =>
                  /\ Len(node_cache[self]) = 2
                  /\ node_objs[node_cache[self][1]]._dec = CMRmatroiddecChild(dec, 0)
                  /\ node_objs[node_cache[self][2]]._dec = CMRmatroiddecChild(dec, 1)

C16_Witness ==
    /\ ThreeSumChildrenCalled
    /\ ~node_ret.raised
    /\ node_objs[node_cache[node_ret.self][1]]._dec = <<1, 1>>
    /\ node_objs[node_cache[node_ret.self][2]]._dec = <<1, 2>>

(* _children() of a ThreeSumNode with row keys and column keys returned
   its two children; Wide_Wide when the ranks are distributed, Mixed_Mixed
   when the rank is concentrated. *)
KeyedThreeSumChildrenReturned ==
    /\ ThreeSumChildrenReturned
    /\ node_ret.before._row_keys # NoKeys
    /\ node_ret.before._column_keys # NoKeys

WideWideReturned ==
    KeyedThreeSumChildrenReturned /\ ~dec_trees[1].concentrated

MixedMixedReturned ==
    KeyedThreeSumChildrenReturned /\ dec_trees[1].concentrated

(* Child k of the 3-sum whose _children() just returned: the node and the
   record of its handle. *)
ChildNode(k) == node_objs[node_cache[node_ret.self][k]]

ChildHandle(k) == dec_trees[1].children[k]

(* The entry of the matrix mat at row r and column c, counted from 0. *)
EntryOf(mat, r, c) ==
    LET S == {i \in (mat.rowSlice[r + 1] + 1)..mat.rowSlice[r + 2] :
                 mat.entryColumns[i] = c}
    IN  IF S = {} THEN 0 ELSE mat.entryValues[CHOOSE i \in S : TRUE]

(* The key that a child has for a row or column that is the element el of
   the parent: the parent's key of that row or column, as a simple key. *)
OwnKey(parent, el) ==
    LET k == IF el.is_row THEN parent._row_keys[el.index + 1]
             ELSE parent._column_keys[el.index + 1]
    IN  [key |-> k.key, wrapped |-> k.wrapped + 1]

(* The composed key (sign1, key1, sign2, key2). *)
Composed(sign1, key1, sign2, key2) ==
    [pairs |-> {<<sign1, key1>>, <<sign2, key2>>}, wrapped |-> 1]

\* C17: in a Wide_Wide 3-sum with row keys R and column keys C, child 1 of
\* n rows and m columns has the keys of its own rows, the keys of its own
\* first m - 1 columns, and as last column key the composed key
\* (+1, C[m - 1], sign, R[n - 1]), sign being the entry of child 1's matrix
\* in its last row and last column, 0 when there is none.
C17_WideWideChild1Keys ==
    WideWideReturned =>
        LET parent == node_ret.before
            child1 == ChildNode(1)
            h == ChildHandle(1)
            n == h.nrows
            m == h.ncols
        IN  /\ child1._row_keys = [i \in 1..n |-> OwnKey(parent, h.rows_parent[i])]
            /\ SubSeq(child1._column_keys, 1, m - 1)
                  = [j \in 1..(m - 1) |-> OwnKey(parent, h.columns_parent[j])]
            /\ Len(child1._column_keys) = m
            /\ child1._column_keys[m]
                  = Composed(1, parent._column_keys[m],
                             EntryOf(h.mat, n - 1, m - 1), parent._row_keys[n])

C17_Witness ==
    /\ WideWideReturned
    /\ EntryOf(ChildHandle(1).mat, ChildHandle(1).nrows - 1, ChildHandle(1).ncols - 1) = 0 - 1
    /\ <<0 - 1, node_ret.before._row_keys[ChildHandle(1).nrows]>>
          \in ChildNode(1)._column_keys[ChildHandle(1).ncols].pairs

\* C18: in a Wide_Wide 3-sum with row keys R and column keys C, child 2
\* has the keys of all its own columns, and its first row key is the
\* composed key (+1, C[1], sign, R[0]).
C18_WideWideChild2RowKey ==
    WideWideReturned =>
        LET parent == node_ret.before
            child2 == ChildNode(2)
            h == ChildHandle(2)
        IN  /\ child2._column_keys
                  = [j \in 1..h.ncols |-> OwnKey(parent, h.columns_parent[j])]
            /\ \E sign \in CharMin..CharMax :
                  child2._row_keys[1]
                     = Composed(1, parent._column_keys[2], sign, parent._row_keys[1])

\* C18, amended: in a Wide_Wide 3-sum with row keys R and column keys C,
\* child 2 of n rows and m columns has the keys of all its own rows and of
\* its own last m - 1 columns, and its first column key is the composed key
\* (+1, C[1], sign, R[0]).
C18_WideWideChild2ColumnKey ==
    WideWideReturned =>
        LET parent == node_ret.before
            child2 == ChildNode(2)
            h == ChildHandle(2)
            n == h.nrows
            m == h.ncols
        IN  /\ child2._row_keys = [i \in 1..n |-> OwnKey(parent, h.rows_parent[i])]
            /\ Len(child2._column_keys) = m
            /\ SubSeq(child2._column_keys, 2, m)
                  = [j \in 1..(m - 1) |-> OwnKey(parent, h.columns_parent[j + 1])]
            /\ \E sign \in CharMin..CharMax :
                  child2._column_keys[1]
                     = Composed(1, parent._column_keys[2], sign, parent._row_keys[1])

C18_Witness ==
    /\ WideWideReturned
    /\ <<1, node_ret.before._column_keys[2]>> \in ChildNode(2)._column_keys[1].pairs
    /\ ChildNode(2)._row_keys[1] = OwnKey(node_ret.before, ChildHandle(2).rows_parent[1])

\* C19: in a Mixed_Mixed 3-sum with row keys R, child 1 of n rows and m
\* columns has the keys of its own rows, the keys of its own first m - 1
\* columns, and as last column key the composed key
\* (e1, R[n - 2], e2, R[n - 1]), e1 and e2 being the entries of child 1's
\* matrix in its last column at the second-to-last and the last row.
C19_MixedMixedChild1Keys ==
    MixedMixedReturned =>
        LET parent == node_ret.before
            child1 == ChildNode(1)
            h == ChildHandle(1)
            n == h.nrows
            m == h.ncols
        IN  /\ child1._row_keys = [i \in 1..n |-> OwnKey(parent, h.rows_parent[i])]
            /\ Len(child1._column_keys) = m
            /\ SubSeq(child1._column_keys, 1, m - 1)
                  = [j \in 1..(m - 1) |-> OwnKey(parent, h.columns_parent[j])]
            /\ child1._column_keys[m]
                  = Composed(EntryOf(h.mat, n - 2, m - 1), parent._row_keys[n - 1],
                             EntryOf(h.mat, n - 1, m - 1), parent._row_keys[n])

C19_Witness ==
    /\ MixedMixedReturned
    /\ EntryOf(ChildHandle(1).mat, ChildHandle(1).nrows - 2, ChildHandle(1).ncols - 1) = 0 - 1
    /\ EntryOf(ChildHandle(1).mat, ChildHandle(1).nrows - 1, ChildHandle(1).ncols - 1) = 1
    /\ <<0 - 1, node_ret.before._row_keys[ChildHandle(1).nrows - 1]>>
          \in ChildNode(1)._column_keys[ChildHandle(1).ncols].pairs

\* C20: in a Mixed_Mixed 3-sum with column keys C, child 2 of n rows and m
\* columns has the keys of all its own columns and of its own last n - 1
\* rows, and as first row key the composed key (e1, C[0], e2, C[1]), e1 and
\* e2 being the entries of child 2's matrix at (0, 0) and (0, 1).
C20_MixedMixedChild2Keys ==
    MixedMixedReturned =>
        LET parent == node_ret.before
            child2 == ChildNode(2)
            h == ChildHandle(2)
            n == h.nrows
            m == h.ncols
        IN  /\ child2._column_keys = [j \in 1..m |-> OwnKey(parent, h.columns_parent[j])]
            /\ Len(child2._row_keys) = n
            /\ SubSeq(child2._row_keys, 2, n)
                  = [i \in 1..(n - 1) |-> OwnKey(parent, h.rows_parent[i + 1])]
            /\ child2._row_keys[1]
                  = Composed(EntryOf(h.mat, 0, 0), parent._column_keys[1],
                             EntryOf(h.mat, 0, 1), parent._column_keys[2])


(***************************************************************************)
(* ElementKey objects: construction, __eq__ and __hash__.                  *)
(***************************************************************************)
KeyMaxObjects == 2

(* What ElementKey(keys, composition) is called with: a label, or
   (sign1, key1, sign2, key2) with composition=True. *)
KeyArgs ==
    {[keys |-> <<PyKey(l)>>, composition |-> FALSE] : l \in NodeLabels}
    \cup {[keys |-> <<s1, PyKey(k1), s2, PyKey(k2)>>, composition |-> TRUE] :
             s1 \in {0 - 1, 1}, s2 \in {0 - 1, 1}, k1 \in NodeLabels, k2 \in NodeLabels}

(* Objects that are not ElementKeys: the labels themselves. *)
KeyOthers == {[key |-> PyKey(l), args |-> [keys |-> <<>>, composition |-> FALSE]] :
                 l \in NodeLabels}

(* Lines 1024-1036: the object that ElementKey(keys, composition) makes,
   with the arguments it was made from. *)
ElementKey__init__(args) ==
    [key |-> IF args.composition THEN ElementKey(args.keys, TRUE)
             ELSE ElementKey(args.keys[1], FALSE),
     args |-> args]

(* Line 1046: isinstance(other, ElementKey). *)
isinstance_ElementKey(other) == other.key.wrapped >= 1

(* Lines 1032 and 1035: the frozenset _key of an ElementKey. *)
_key(self) ==
    IF self.args.composition THEN self.key.pairs
    ELSE {<<[self.key EXCEPT !.wrapped = @ - 1]>>}

(* __eq__ that compares the operands in the order they were given. *)
eq_same_operands(self, other) ==
    IF isinstance_ElementKey(other) THEN self.args = other.args ELSE FALSE

(* Lines 1045-1048. *)
__eq__(self, other) ==
    IF isinstance_ElementKey(other) THEN _key(self) = _key(other) ELSE FALSE

(* hash() of a frozenset: a number made of the items whatever their
   order. *)
RECURSIVE hash(_)
hash(S) ==
    IF S = {} THEN 0
    ELSE LET item == CHOOSE x \in S : TRUE
             label == item[Len(item)].key
             sign == IF Len(item) = 2 THEN item[1] ELSE 0
         IN  (3 * sign + (IF label = "a" THEN 5 ELSE 7) + hash(S \ {item})) % 64

(* Lines 1042-1043. *)
__hash__(self) == hash(_key(self))

KeyNew ==
    /\ Len(key_objs) < KeyMaxObjects
    /\ \E args \in KeyArgs :
          /\ key_objs' = Append(key_objs, ElementKey__init__(args))
          /\ key_ret' = [op |-> "__init__", self |-> ElementKey__init__(args),
                         other |-> 0, val |-> 0]
    /\ UNCHANGED <<palp_vars, mat_vars, node_vars, view_vars, check_ret>>

KeyEq ==
    /\ \E i \in DOMAIN key_objs :
       \E other \in {key_objs[j] : j \in DOMAIN key_objs} \cup KeyOthers :
          key_ret' = [op |-> "__eq__", self |-> key_objs[i], other |-> other,
                      val |-> __eq__(key_objs[i], other)]
    /\ UNCHANGED <<palp_vars, mat_vars, node_vars, view_vars, check_ret, key_objs>>

KeyHash ==
    /\ \E i \in DOMAIN key_objs :
          key_ret' = [op |-> "__hash__", self |-> key_objs[i], other |-> 0,
                      val |-> __hash__(key_objs[i])]
    /\ UNCHANGED <<palp_vars, mat_vars, node_vars, view_vars, check_ret, key_objs>>

KeyNext ==
    \/ KeyNew
    \/ KeyEq
    \/ KeyHash

KeySpec == Init /\ [][KeyNext]_vars

(***************************************************************************)
(* Claims about ElementKey.                                                *)
(***************************************************************************)
(* The set of (sign, label) pairs, or of the one label, that the
   arguments of an ElementKey stand for. *)
KeySetOfArgs(args) ==
    IF args.composition
    THEN {<<args.keys[1], args.keys[2].key>>, <<args.keys[3], args.keys[4].key>>}
    ELSE {<<0, args.keys[1].key>>}

(* The labels in the arguments of an ElementKey. *)
LabelsOfArgs(args) ==
    IF args.composition THEN {args.keys[2].key, args.keys[4].key}
    ELSE {args.keys[1].key}

(* (s2, b, s1, a) for (s1, a, s2, b). *)
Swapped(args) ==
    [args EXCEPT !.keys = <<args.keys[3], args.keys[4], args.keys[1], args.keys[2]>>]

\* C21: __eq__ of two ElementKeys is true exactly when their key sets are
\* equal, so the key made from (s1, a, s2, b) equals the key made from
\* (s2, b, s1, a); keys that are equal have the same hash; __eq__ with an
\* object that is not an ElementKey is false.
C21_KeyEqualityBySet ==
    /\ key_ret.op = "__eq__" =>
          IF key_ret.other \in KeyOthers THEN key_ret.val = FALSE
          ELSE key_ret.val
                  = (KeySetOfArgs(key_ret.self.args) = KeySetOfArgs(key_ret.other.args))
    /\ \A i, j \in DOMAIN key_objs :
          /\ (key_objs[i].args.composition /\ key_objs[j].args = Swapped(key_objs[i].args))
                => __eq__(key_objs[i], key_objs[j])
          /\ __eq__(key_objs[i], key_objs[j])
                => __hash__(key_objs[i]) = __hash__(key_objs[j])

C21_Witness ==
    /\ key_ret.op = "__eq__"
    /\ key_ret.val = TRUE
    /\ key_ret.self.args.composition
    /\ key_ret.self.args # key_ret.other.args
    /\ key_ret.other.args = Swapped(key_ret.self.args)

\* C22: __eq__ of two ElementKeys depends on their labels only: two
\* composed keys over the same two labels are equal whatever their signs.
C22_KeyEqualityByLabels ==
    (key_ret.op = "__eq__" /\ key_ret.self.args.composition
                            /\ key_ret.other.args.composition) =>
        key_ret.val
           = (LabelsOfArgs(key_ret.self.args) = LabelsOfArgs(key_ret.other.args))


(***************************************************************************)
(* OneSumNode.check on matrices a caller has and on the summands of a      *)
(* certificate.                                                            *)
(***************************************************************************)
(* The entries of a CMR_CHRMAT as a matrix, each read as get_unsafe reads
   it. *)
DenseOf(mat) ==
    [r \in 1..mat.numRows |-> [c \in 1..mat.numColumns |->
        epsilon(mat, mat, r - 1, c - 1)]]

(* M.matrix_from_rows_and_columns(rows, columns) of a matrix M, as
   [exc, matrix]: the rows and columns are positions counted from 0;
   objects that are no integers, as keys are, are refused. *)
matrix_from_rows_and_columns(M, rows_and_columns) ==
    LET rows == rows_and_columns.rows
        columns == rows_and_columns.columns
    IN  IF ~rows_and_columns.are_indices
        THEN [exc |-> "TypeError", matrix |-> <<>>]
        ELSE IF \/ \E i \in DOMAIN rows : rows[i] < 0 \/ rows[i] >= Len(M)
                \/ \E j \in DOMAIN columns : columns[j] < 0 \/ columns[j] >= Len(M[1])
        THEN [exc |-> "IndexError", matrix |-> <<>>]
        ELSE [exc |-> "",
              matrix |-> [i \in DOMAIN rows |-> [j \in DOMAIN columns |->
                             M[rows[i] + 1][columns[j] + 1]]]]

(* Lines 477-479 for the pair of index i of the zip: the exception the
   assert statement ends with, "" when it holds. *)
check_summand(result_matrix, matrix, rows_and_columns) ==
    LET sub == matrix_from_rows_and_columns(result_matrix, rows_and_columns)
    IN  IF sub.exc # "" THEN sub.exc
        ELSE IF sub.matrix # matrix THEN "AssertionError"
        ELSE ""

(* check that stops after the first summand. *)
check_first_summand(result_matrix, summand_matrices, summand_parent_rows_and_columns) ==
    IF summand_matrices = <<>> \/ summand_parent_rows_and_columns = <<>> THEN ""
    ELSE check_summand(result_matrix, summand_matrices[1],
                       summand_parent_rows_and_columns[1])

(* Lines 477-479: OneSumNode.check; the exception it ends with, "" when
   it returns. *)
check(result_matrix, summand_matrices, summand_parent_rows_and_columns) ==
    LET zip == DOMAIN summand_matrices \cap DOMAIN summand_parent_rows_and_columns
        exc == [i \in zip |-> check_summand(result_matrix, summand_matrices[i],
                                            summand_parent_rows_and_columns[i])]
        failed == {i \in zip : exc[i] # ""}
    IN  IF failed = {} THEN ""
        ELSE exc[CHOOSE i \in failed : \A j \in failed : i <= j]

(* The matrices and positions of lines 453-460 to the size of the model:
   a 2 x 2 matrix and two 1 x 1 summands with a row and a column each. *)
CheckArgs ==
    LET summands == {[matrix |-> <<<<v>>>>,
                      at |-> [rows |-> <<r>>, columns |-> <<c>>, are_indices |-> TRUE]] :
                        v \in {0, 1}, r \in 0..1, c \in 0..1}
    IN  {[result_matrix |-> M, summands |-> <<s1, s2>>] :
            M \in {<<<<1, 0>>, <<0, 1>>>>, <<<<1, 1>>, <<0, 0>>>>},
            s1 \in summands, s2 \in summands}

(* One call of check and its outcome. *)
CheckReturn(op, result_matrix, summand_matrices, summand_parent_rows_and_columns) ==
    [op |-> op, result_matrix |-> result_matrix,
     summand_matrices |-> summand_matrices,
     summand_parent_rows_and_columns |-> summand_parent_rows_and_columns,
     exc |-> check(result_matrix, summand_matrices, summand_parent_rows_and_columns)]

(* Lines 453-460: OneSumNode.check on matrices of the caller. *)
CheckCall ==
    /\ check_ret.op = "none"
    /\ DOMAIN dec_trees = {}
    /\ \E args \in CheckArgs :
          check_ret' = CheckReturn("check", args.result_matrix,
                                   [i \in 1..2 |-> args.summands[i].matrix],
                                   [i \in 1..2 |-> args.summands[i].at])
    /\ UNCHANGED <<palp_vars, mat_vars, node_vars, view_vars, key_vars>>

(* Lines 441-445: M2 = one_sum(A, B) of two 1 x 1 matrices and
   M2.is_totally_unimodular(certificate=True), with or without keys; CMR
   enumerates the summands in either order. *)
CheckCertify ==
    /\ check_ret.op = "none"
    /\ DOMAIN dec_trees = {}
    /\ \E a \in Signs \ {0}, b \in Signs \ {0}, reversed \in BOOLEAN, keyed \in BOOLEAN :
       LET A == ChildDec(CMR_MATROID_DEC_TYPE_GRAPH, <<<<a>>>>,
                         <<RowElement(0)>>, <<ColumnElement(0)>>)
           B == ChildDec(CMR_MATROID_DEC_TYPE_GRAPH, <<<<b>>>>,
                         <<RowElement(1)>>, <<ColumnElement(1)>>)
           shape == [type |-> CMR_MATROID_DEC_TYPE_ONE_SUM, nrows |-> 2, ncols |-> 2,
                     concentrated |-> FALSE,
                     children |-> IF reversed THEN <<B, A>> ELSE <<A, B>>,
                     mat |-> ChrmatOfRows(<<<<a, 0>>, <<0, b>>>>)]
           row_keys == IF keyed THEN [i \in 1..2 |-> PyKey(RowLabels[i])] ELSE NoKeys
           column_keys == IF keyed THEN [i \in 1..2 |-> PyKey(ColumnLabels[i])] ELSE NoKeys
           trees == 1 :> shape
       IN  /\ dec_trees' = trees
           /\ node_made' = 1
           /\ dec_calls' = [h \in HandlesOf(1, shape) |-> 0]
           /\ \E r \in {create_DecompositionNode(trees, 1, <<1, 0>>, None,
                                                 row_keys, column_keys)} :
                 /\ node_objs' = 1 :> r.node
                 /\ node_ret' = NodeReturn("create_DecompositionNode", 1,
                                           <<row_keys, column_keys>>, r.node, "", NULL)
    /\ UNCHANGED <<node_cache, palp_vars, mat_vars, ext_vars>>

(* Lines 446-449: OneSumNode.check(M2, certificate.summand_matrices(),
   [summand.parent_rows_and_columns() for summand in
   certificate.summands()]). *)
CheckCertificate ==
    /\ check_ret.op = "none"
    /\ 1 \in DOMAIN node_cache
    /\ LET summands == [i \in DOMAIN node_cache[1] |-> node_objs[node_cache[1][i]]]
           at(node) ==
               LET p == parent_rows_and_columns(dec_trees, node)
               IN  [rows |-> p[1], columns |-> p[2],
                    are_indices |-> node._row_keys = NoKeys /\ node._column_keys = NoKeys]
       IN  check_ret' = CheckReturn(
               "check_certificate",
               DenseOf(CMRmatroiddecGetMatrix(dec_trees, <<1, 0>>)),
               [i \in DOMAIN summands |->
                   DenseOf(CMRmatroiddecGetMatrix(dec_trees, summands[i]._dec))],
               [i \in DOMAIN summands |-> at(summands[i])])
    /\ UNCHANGED <<palp_vars, mat_vars, node_vars, view_vars, key_vars>>

CheckNext ==
    \/ CheckCall
    \/ CheckCertify
    \/ TreeChildren
    \/ CheckCertificate

CheckSpec == Init /\ [][CheckNext]_vars

(***************************************************************************)
(* Claims about OneSumNode.check.                                          *)
(***************************************************************************)
(* The matrix M at the given rows and columns, counted from 0, equals the
   matrix S. *)
SubmatrixIs(M, rows, columns, S) ==
    /\ Len(S) = Len(rows)
    /\ \A i \in DOMAIN rows :
          /\ Len(S[i]) = Len(columns)
          /\ \A j \in DOMAIN columns : S[i][j] = M[rows[i] + 1][columns[j] + 1]

(* check returned for every summand of the last call what it should. *)
CheckPassesExactly ==
    check_ret.op = "check" =>
        (check_ret.exc = ""
            <=> \A i \in DOMAIN check_ret.summand_matrices :
                   SubmatrixIs(check_ret.result_matrix,
                               check_ret.summand_parent_rows_and_columns[i].rows,
                               check_ret.summand_parent_rows_and_columns[i].columns,
                               check_ret.summand_matrices[i]))

SpecialMatroids ==
    {"R10", "Fano", "Fano dual", "K5", "K5 dual", "K33", "K33 dual",
     "|det| = 2 submatrix"}

(* _matroid without its last test. *)
matroid_without_determinant(trees, dec) ==
    LET typ == CMRmatroiddecType(trees, dec)
    IN  IF typ = CMR_MATROID_DEC_TYPE_R10 THEN [exc |-> "", val |-> "R10"]
        ELSE IF typ = CMR_MATROID_DEC_TYPE_FANO THEN [exc |-> "", val |-> "Fano"]
        ELSE IF typ = CMR_MATROID_DEC_TYPE_FANO_DUAL THEN [exc |-> "", val |-> "Fano dual"]
        ELSE IF typ = CMR_MATROID_DEC_TYPE_K5 THEN [exc |-> "", val |-> "K5"]
        ELSE IF typ = CMR_MATROID_DEC_TYPE_K5_DUAL THEN [exc |-> "", val |-> "K5 dual"]
        ELSE IF typ = CMR_MATROID_DEC_TYPE_K33 THEN [exc |-> "", val |-> "K33"]
        ELSE IF typ = CMR_MATROID_DEC_TYPE_K33_DUAL THEN [exc |-> "", val |-> "K33 dual"]
        ELSE [exc |-> "AssertionError", val |-> "special leaf node with unknown type"]

(* Lines 938-966: SpecialLeafNode._matroid, as [exc, val]. *)
_matroid(trees, dec) ==
    LET typ == CMRmatroiddecType(trees, dec)
    IN  IF typ = CMR_MATROID_DEC_TYPE_R10 THEN [exc |-> "", val |-> "R10"]
        ELSE IF typ = CMR_MATROID_DEC_TYPE_FANO THEN [exc |-> "", val |-> "Fano"]
        ELSE IF typ = CMR_MATROID_DEC_TYPE_FANO_DUAL THEN [exc |-> "", val |-> "Fano dual"]
        ELSE IF typ = CMR_MATROID_DEC_TYPE_K5 THEN [exc |-> "", val |-> "K5"]
        ELSE IF typ = CMR_MATROID_DEC_TYPE_K5_DUAL THEN [exc |-> "", val |-> "K5 dual"]
        ELSE IF typ = CMR_MATROID_DEC_TYPE_K33 THEN [exc |-> "", val |-> "K33"]
        ELSE IF typ = CMR_MATROID_DEC_TYPE_K33_DUAL THEN [exc |-> "", val |-> "K33 dual"]
        ELSE IF typ = CMR_MATROID_DEC_TYPE_DETERMINANT
        THEN [exc |-> "", val |-> "|det| = 2 submatrix"]
        ELSE [exc |-> "AssertionError", val |-> "special leaf node with unknown type"]

(* Lines 971-975: SpecialLeafNode.rep_matrix.  Line 975 asserts the class
   NotImplementedError, which is true; the method ends without a return and
   its value is None. *)
rep_matrix(self) ==
    LET asserted == "NotImplementedError"
    IN  IF asserted = "" THEN [exc |-> "AssertionError", val |-> None]
        ELSE [exc |-> "", val |-> None]

(* Lines 374-376: SumNode.permuted_block_matrix. *)
permuted_block_matrix(self) == [exc |-> "NotImplementedError", val |-> None]

(* What CMRtestGraphicMatrix may do: answer, run out of time, or, asked for
   the certificate, fail as line 258 says it does. *)
GraphicTests(certificate) ==
    {[outcome |-> "answer", result |-> b] : b \in BOOLEAN}
    \cup {[outcome |-> "time limit", result |-> FALSE]}
    \cup (IF certificate THEN {[outcome |-> "segfault", result |-> FALSE]} ELSE {})

(* part_002 lines 226-267: Matrix_cmr_chr_sparse.is_graphic. *)
is_graphic(certificate, test) ==
    IF test.outcome = "segfault" THEN [exc |-> "SIGSEGV", val |-> None]
    ELSE IF test.outcome = "time limit" THEN [exc |-> "RuntimeError", val |-> None]
    ELSE IF certificate THEN [exc |-> "NotImplementedError", val |-> None]
    ELSE [exc |-> "", val |-> test.result]

(* part_002 lines 269-270: Matrix_cmr_chr_sparse.is_cographic. *)
is_cographic(certificate) == [exc |-> "NotImplementedError", val |-> None]

(* The classes of SumNode, lines 343-378, 381, 483, 594. *)
SumNodeClasses == {"OneSumNode", "TwoSumNode", "ThreeSumNode"}

(* One call of a method and its outcome. *)
LeafReturn(op, self, arg, r) ==
    [op |-> op, self |-> self, arg |-> arg, exc |-> r.exc, val |-> r.val]

LeafMatroid ==
    /\ check_ret.op = "none"
    /\ \E self \in DOMAIN node_objs :
          /\ node_objs[self].__class__ = "SpecialLeafNode"
          /\ check_ret' = LeafReturn("_matroid", self, None,
                                     _matroid(dec_trees, node_objs[self]._dec))
    /\ UNCHANGED <<palp_vars, mat_vars, node_vars, view_vars, key_vars>>

LeafRepMatrix ==
    /\ check_ret.op = "none"
    /\ \E self \in DOMAIN node_objs :
          /\ node_objs[self].__class__ = "SpecialLeafNode"
          /\ check_ret' = LeafReturn("rep_matrix", self, None, rep_matrix(self))
    /\ UNCHANGED <<palp_vars, mat_vars, node_vars, view_vars, key_vars>>

SumPermutedBlockMatrix ==
    /\ check_ret.op = "none"
    /\ \E self \in DOMAIN node_objs :
          /\ node_objs[self].__class__ \in SumNodeClasses
          /\ check_ret' = LeafReturn("permuted_block_matrix", self, None,
                                     permuted_block_matrix(self))
    /\ UNCHANGED <<palp_vars, mat_vars, node_vars, view_vars, key_vars>>

MatIsGraphic ==
    /\ check_ret.op = "none"
    /\ \E certificate \in BOOLEAN :
       \E test \in GraphicTests(certificate) :
          check_ret' = LeafReturn("is_graphic", None, certificate,
                                  is_graphic(certificate, test))
    /\ UNCHANGED <<palp_vars, mat_vars, node_vars, view_vars, key_vars>>

MatIsCographic ==
    /\ check_ret.op = "none"
    /\ \E certificate \in BOOLEAN :
          check_ret' = LeafReturn("is_cographic", None, certificate,
                                  is_cographic(certificate))
    /\ UNCHANGED <<palp_vars, mat_vars, node_vars, view_vars, key_vars>>

LeafNext ==
    \/ TreeCertify
    \/ TreeChildren
    \/ LeafMatroid
    \/ LeafRepMatrix
    \/ SumPermutedBlockMatrix
    \/ MatIsGraphic
    \/ MatIsCographic

LeafSpec == Init /\ [][LeafNext]_vars

(***************************************************************************)
(* Claims about special leaves and the operations not implemented yet.     *)
(***************************************************************************)
(* The last call was one of an operation that is not implemented yet. *)
UnimplementedCalled ==
    \/ check_ret.op \in {"rep_matrix", "permuted_block_matrix", "is_cographic"}
    \/ check_ret.op = "is_graphic" /\ check_ret.arg = TRUE

\* C24: every operation that is not implemented yet ends with an error and
\* returns no value: rep_matrix of a special leaf, is_cographic with and
\* without certificate, is_graphic with certificate, and
\* permuted_block_matrix of a sum node.
C24_UnimplementedRaises ==
    UnimplementedCalled => check_ret.exc # ""

\* C28: every handle with a tag below -1 is wrapped as a SpecialLeafNode,
\* _matroid of a SpecialLeafNode returns one of the eight named values and
\* never reaches the assertion of an unknown type, and a SpecialLeafNode has
\* no children.
C28_SpecialLeafResolved ==
    /\ \A self \in DOMAIN node_objs :
          (CMRmatroiddecType(dec_trees, node_objs[self]._dec) < -1)
             <=> (node_objs[self].__class__ = "SpecialLeafNode")
    /\ check_ret.op = "_matroid"
          => /\ check_ret.exc = ""
             /\ check_ret.val \in SpecialMatroids
    /\ \A self \in DOMAIN node_cache :
          node_objs[self].__class__ = "SpecialLeafNode" => node_cache[self] = <<>>

C28_Witness ==
    /\ check_ret.op = "_matroid"
    /\ check_ret.val = "|det| = 2 submatrix"
    /\ check_ret.self \in DOMAIN node_cache
    /\ CMRmatroiddecType(dec_trees, node_objs[check_ret.self]._dec)
          = CMR_MATROID_DEC_TYPE_DETERMINANT

(***************************************************************************)
(* Claim about the signs of the composed keys of a 3-sum.                  *)
(***************************************************************************)
(* The composed keys that _children() gave child 1 and child 2 of the
   3-sum, and what they are when every sign is the entry of the child's own
   matrix. *)
ComposedKeysReturned ==
    LET concentrated == dec_trees[1].concentrated
    IN  <<ChildNode(1)._column_keys[ChildHandle(1).ncols],
          IF concentrated THEN ChildNode(2)._row_keys[1]
          ELSE ChildNode(2)._column_keys[1]>>

ComposedKeysOfOwnEntries ==
    LET parent == node_ret.before
        R == parent._row_keys
        C == parent._column_keys
        mat1 == ChildHandle(1).mat
        mat2 == ChildHandle(2).mat
        n == ChildHandle(1).nrows
        m == ChildHandle(1).ncols
    IN  IF dec_trees[1].concentrated
        THEN <<Composed(EntryOf(mat1, n - 2, m - 1), R[n - 1],
                        EntryOf(mat1, n - 1, m - 1), R[n]),
               Composed(EntryOf(mat2, 0, 0), C[1], EntryOf(mat2, 0, 1), C[2])>>
        ELSE <<Composed(1, C[m], EntryOf(mat1, n - 1, m - 1), R[n]),
               Composed(1, C[2], EntryOf(mat2, 0, 0), R[1])>>

\* C26: in the Mixed_Mixed and in the Wide_Wide branch of the key
\* composition of a 3-sum, for child 1 and for child 2, every sign of a
\* composed key is the entry of that child's own matrix at the position the
\* branch names, 0 when the matrix stores no entry there.
C26_SignsFromOwnMatrix ==
    KeyedThreeSumChildrenReturned => ComposedKeysReturned = ComposedKeysOfOwnEntries

(***************************************************************************)
(* Claim about the permutations _palp_PM_max returns.                      *)
(***************************************************************************)
\* C27: with check=True every pair of a row permutation and a column
\* permutation that _palp_PM_max returns, applied to the matrix it was
\* called on, gives the normal form returned; the pairs are pairwise
\* distinct and their indices are 0..m-1 without gaps.
C27_PermutationsYieldNormalForm ==
    palp_out.done =>
        LET permutations == palp_out.permutations
            m == Cardinality(DOMAIN permutations)
        IN  /\ DOMAIN permutations = 0..(m - 1)
            /\ \A k \in DOMAIN permutations :
                  with_permuted_rows_and_columns(palp_PM, permutations[k][1],
                                                 permutations[k][2])
                     = palp_out.PM_max
            /\ \A k1, k2 \in DOMAIN permutations :
                  k1 # k2 => permutations[k1] # permutations[k2]

(***************************************************************************)
(* Claim about the row slices _init_from_dict leaves.                      *)
(***************************************************************************)
(* The constructor returned the matrix mat_ret.self made from the mapping
   mat_ret.arg.d. *)
Constructed == mat_ret.op = "__init__" /\ mat_ret.exc = ""

(* The items of d in row r whose coefficient is not zero. *)
NonzeroItems(d, r) == {a \in DOMAIN d : d[a][1] = r /\ d[a][3] # 0}

(* rowSlice of mat starts at 0, does not decrease, and the slice of each
   row has as many entries as d has nonzeros in the row, each at a column
   where d has a nonzero of the row. *)
RowSlicesOf(mat, d) ==
    /\ Get0(mat.rowSlice, 0) = 0
    /\ \A r \in 0..(mat.numRows - 1) :
          /\ Get0(mat.rowSlice, r) <= Get0(mat.rowSlice, r + 1)
          /\ Get0(mat.rowSlice, r + 1) - Get0(mat.rowSlice, r)
                = Cardinality(NonzeroItems(d, r))
          /\ \A index \in Get0(mat.rowSlice, r)..(Get0(mat.rowSlice, r + 1) - 1) :
                \E a \in NonzeroItems(d, r) :
                   /\ Get0(mat.entryColumns, index) = d[a][2]
                   /\ Get0(mat.entryValues, index) = d[a][3]

(* The entries stored for d: its nonzero items. *)
StoredEntries(d) == Cardinality({a \in DOMAIN d : d[a][3] # 0})

\* C29: after _init_from_dict on any mapping d, also one with explicit
\* zeros or with rows without entries, rowSlice[0] = 0, rowSlice does not
\* decrease, rowSlice[r + 1] - rowSlice[r] is the number of nonzeros of d in
\* row r, every entry in the slice of row r belongs to row r, and
\* rowSlice[nrows] is the number of entries stored and the number of
\* nonzeros recorded for the matrix.
C29_RowSlices ==
    Constructed =>
        LET mat == mat_heap[mat_ret.self]._mat
            d == mat_ret.arg.d
        IN  /\ RowSlicesOf(mat, d)
            /\ Get0(mat.rowSlice, mat.numRows) = StoredEntries(d)
            /\ Get0(mat.rowSlice, mat.numRows) = mat.numNonzeros

(* The slices alone, without the count the matrix records. *)
RowSlicesHold ==
    Constructed =>
        /\ RowSlicesOf(mat_heap[mat_ret.self]._mat, mat_ret.arg.d)
        /\ Get0(mat_heap[mat_ret.self]._mat.rowSlice, mat_ret.arg.nrows)
              = StoredEntries(mat_ret.arg.d)

(***************************************************************************)
(* Cached methods of a node and the matrices that matrix() makes.          *)
(*   mat_views[v]   the matrix object v made by matrix(): its _mat, the    *)
(*                  handle whose native matrix it points to, its _root,    *)
(*                  and whether it is still live                           *)
(*   node_matrix[n] what the first matrix() of node n returned: a matrix   *)
(*                  object or None                                         *)
(*   chr_calls[h]   the calls of CMRchrmatFree on the native matrix of     *)
(*                  handle h made by matrix objects                        *)
(***************************************************************************)
(* A method that computes at every call. *)
not_cached(cache, self, computed) == [hit |-> FALSE, val |-> computed]

(* sage.misc.cachefunc.cached_method of a method without arguments: the
   value of the first call that returned is kept for the object and handed
   out at every later call. *)
cached_method(cache, self, computed) ==
    IF self \in DOMAIN cache THEN [hit |-> TRUE, val |-> cache[self]]
    ELSE [hit |-> FALSE, val |-> computed]

(* Lines 111-113: the native matrix of the handle of a node; NULL for a
   handle that stores none. *)
has_matrix(trees, dec) == "mat" \in DOMAIN DecOf(trees, dec)

(* The value None of matrix(), in the shape of a matrix object. *)
NoMatrix == [_mat |-> NULL, _root |-> None, live |-> FALSE]

(* Lines 111-119: the body of matrix(), None or a new matrix object. *)
matrix(trees, self, node) ==
    IF ~has_matrix(trees, node._dec) THEN NoMatrix
    ELSE [_mat |-> node._dec,
          _root |-> IF node._root # None THEN node._root ELSE self,
          live |-> TRUE]

(* part_002 lines 141-142: Matrix_cmr_chr_sparse.__dealloc__, the native
   matrix it hands to CMRchrmatFree. *)
Matrix_cmr_chr_sparse__dealloc__(view) == view._mat

(* part_002 line 142: the calls of CMRchrmatFree counted by handle. *)
CMRchrmatFree(calls, freed) ==
    IF freed = NULL THEN calls
    ELSE IF freed \in DOMAIN calls THEN [calls EXCEPT ![freed] = @ + 1]
    ELSE (freed :> 1) @@ calls

(* One later call of a cached method and what it did. *)
ViewReturn(op, self, first, val, wrapped, views, before, after) ==
    [op |-> op, self |-> self, first |-> first, val |-> val,
     wrapped |-> wrapped, views |-> views, before |-> before, after |-> after]

(* The decompositions whose nodes are asked for their matrices: a leaf
   whose handle stores no matrix, and the 3-sums whose summands have all
   their entries equal to 1. *)
ViewShapes ==
    {shape \in LeafShapes : shape.type = CMR_MATROID_DEC_TYPE_GRAPH}
    \cup {shape \in ThreeSumShapes :
             \A k \in DOMAIN shape.children :
                /\ shape.children[k].mat.numNonzeros >= 4
                /\ \A i \in DOMAIN shape.children[k].mat.entryValues :
                      shape.children[k].mat.entryValues[i] = 1}

(* A decomposition of ViewShapes is made and its root wrapped, with keys
   for all rows and columns or without keys. *)
ViewCertify ==
    /\ DOMAIN dec_trees = {}
    /\ \E shape \in ViewShapes, keyed \in BOOLEAN :
       LET self == node_made + 1
           trees == 1 :> shape
           row_keys == IF keyed THEN [i \in 1..shape.nrows |-> PyKey(RowLabels[i])]
                       ELSE NoKeys
           column_keys == IF keyed THEN [i \in 1..shape.ncols |-> PyKey(ColumnLabels[i])]
                          ELSE NoKeys
       IN  /\ dec_trees' = trees
           /\ node_made' = self
           /\ dec_calls' = [h \in HandlesOf(1, shape) |-> 0]
           /\ \E r \in {create_DecompositionNode(trees, self, <<1, 0>>, None,
                                                 row_keys, column_keys)} :
                 /\ ~r.raised
                 /\ node_objs' = (self :> r.node) @@ node_objs
                 /\ node_ret' = NodeReturn("create_DecompositionNode", self,
                                           <<row_keys, column_keys>>, r.node, "", NULL)
    /\ UNCHANGED <<node_cache, palp_vars, mat_vars, ext_vars>>

(* Lines 87-119: node.matrix() for the first time. *)
ViewMatrix ==
    /\ \E self \in DOMAIN node_objs :
          /\ self \notin DOMAIN node_matrix
          /\ \E r \in {cached_method(node_matrix, self,
                                     matrix(dec_trees, self, node_objs[self]))} :
                IF r.val = NoMatrix
                THEN /\ node_matrix' = (self :> None) @@ node_matrix
                     /\ UNCHANGED mat_views
                ELSE /\ mat_views' = Append(mat_views, r.val)
                     /\ node_matrix' = (self :> Len(mat_views) + 1) @@ node_matrix
    /\ UNCHANGED <<chr_calls, check_ret>>
    /\ UNCHANGED <<palp_vars, mat_vars, node_vars, key_vars>>

(* Lines 87-119: node.matrix() once more. *)
ViewMatrixAgain ==
    /\ \E self \in DOMAIN node_objs :
          /\ self \in DOMAIN node_matrix
          /\ \E r \in {cached_method(node_matrix, self,
                                     matrix(dec_trees, self, node_objs[self]))} :
                /\ IF r.hit
                   THEN UNCHANGED <<mat_views, node_matrix>>
                   ELSE IF r.val = NoMatrix
                   THEN UNCHANGED <<mat_views, node_matrix>>
                   ELSE /\ mat_views' = Append(mat_views, r.val)
                        /\ node_matrix' = [node_matrix EXCEPT ![self] = Len(mat_views) + 1]
                /\ check_ret' = ViewReturn("matrix", self, node_matrix[self],
                                           IF r.hit THEN r.val
                                           ELSE IF r.val = NoMatrix THEN None
                                           ELSE Len(mat_views) + 1,
                                           0, Len(mat_views') - Len(mat_views),
                                           node_objs[self], node_objs[self])
    /\ UNCHANGED chr_calls
    /\ UNCHANGED <<palp_vars, mat_vars, node_vars, key_vars>>

(* Lines 301-341 and 599-756: node._children() once more. *)
ViewChildrenAgain ==
    /\ \E self \in DOMAIN node_objs :
          /\ self \in DOMAIN node_cache
          /\ \E r \in {cached_method(node_cache, self,
                          IF node_objs[self].__class__ = "ThreeSumNode"
                          THEN ThreeSumNode_children(dec_trees, self, node_objs[self],
                                                     node_made)
                          ELSE _children(dec_trees, self, node_objs[self], node_made))} :
             LET ids == IF r.hit THEN r.val
                        ELSE [i \in 1..Len(r.val.nodes) |-> node_made + i]
             IN  /\ IF r.hit
                    THEN UNCHANGED <<node_objs, node_made, node_cache>>
                    ELSE /\ node_objs' = [i \in {ids[k] : k \in DOMAIN ids} |->
                                             r.val.nodes[i - node_made]] @@ node_objs
                         /\ node_made' = node_made + Len(ids)
                         /\ node_cache' = [node_cache EXCEPT ![self] = ids]
                 /\ check_ret' = ViewReturn("_children", self, node_cache[self], ids,
                                            node_made' - node_made, 0,
                                            node_objs[self], node_objs'[self])
    /\ UNCHANGED <<dec_trees, dec_calls, node_ret>>
    /\ UNCHANGED <<palp_vars, mat_vars, view_vars, key_vars>>

(* part_002 lines 141-142: a matrix object that matrix() made is torn down,
   after the node that kept it. *)
ViewDealloc ==
    /\ \E v \in DOMAIN mat_views :
          /\ mat_views[v].live
          /\ \A n \in DOMAIN node_matrix : node_matrix[n] = v => n \notin DOMAIN node_objs
          /\ chr_calls' = CMRchrmatFree(chr_calls,
                                        Matrix_cmr_chr_sparse__dealloc__(mat_views[v]))
          /\ mat_views' = [mat_views EXCEPT ![v].live = FALSE]
    /\ UNCHANGED <<node_matrix, check_ret>>
    /\ UNCHANGED <<palp_vars, mat_vars, node_vars, key_vars>>

ViewNext ==
    \/ CheckCertify
    \/ ViewCertify
    \/ TreeChildren
    \/ TreeThreeSumChildren
    \/ ViewChildrenAgain
    \/ ViewMatrix
    \/ ViewMatrixAgain
    \/ ViewDealloc
    \/ NodeDealloc

ViewSpec == Init /\ [][ViewNext]_vars

(***************************************************************************)
(* Claims about the cached methods and the matrices of nodes.              *)
(***************************************************************************)
\* C25: _children() and matrix() of a node are computed once: every later
\* call returns the objects of the first call, wraps no child handle and
\* makes no matrix object again, and leaves the handle, the root and the
\* keys of the node as they were.
C25_ComputedOnce ==
    check_ret.op \in {"_children", "matrix"} =>
        /\ check_ret.val = check_ret.first
        /\ check_ret.wrapped = 0
        /\ check_ret.views = 0
        /\ check_ret.after = check_ret.before

C25_Witness ==
    /\ check_ret.op = "_children"
    /\ Len(check_ret.val) = 2
    /\ check_ret.self \in DOMAIN node_matrix
    /\ node_matrix[check_ret.self] # None
    /\ check_ret.before._row_keys # NoKeys

(* The releases of the native matrix of handle h: by matrix objects, and
   with the whole tree by CMRmatroiddecFree on the root handle. *)
NativeMatrixReleased(h) ==
    (IF h \in DOMAIN chr_calls THEN chr_calls[h] ELSE 0) + dec_calls[<<h[1], 0>>]

(* A node that can read the native matrix of handle h: a live node of the
   tree. *)
CanRead(h) == \E n \in DOMAIN node_objs : node_objs[n]._dec[1] = h[1]

\* C30: the matrix that matrix() returns borrows the native matrix of the
\* handle: its teardown does not free the native matrix, only the teardown
\* of the root does, so in every order of teardowns the native matrix is
\* freed at most once and never while a node of the tree can read it.
C30_NativeMatrixBorrowed ==
    /\ \A h \in DOMAIN chr_calls : chr_calls[h] = 0
    /\ \A h \in DOMAIN dec_calls :
          /\ NativeMatrixReleased(h) <= 1
          /\ NativeMatrixReleased(h) >= 1 => ~CanRead(h)

=============================================================================
